---- MODULE Spec2Model ----
(***************************************************************************)
(* The wish-draw matching engine: SeededRandom (string hash, linear        *)
(* congruential generator, Fisher-Yates shuffle) and matchWishes (bounded  *)
(* retry loop around an augmenting-path search over the cross-group        *)
(* eligibility graph).                                                     *)
(*                                                                         *)
(* Strings are sequences of UTF-16 code units, so that the seed hash is    *)
(* computed as the code computes it.  A JavaScript Map is a sequence of    *)
(* <<key, value>> entries in insertion order.                              *)
(***************************************************************************)
EXTENDS Integers, Sequences, FiniteSets, TLC

\* ---------------------------------------------------------------- bounds
MaxPlayers == 3
MaxWishes == 2
\* next() calls made on one generator from outside shuffle
MaxDraws == 2
\* length of an array handed to shuffle
MaxLen == 3
\* length of the short seed strings
MaxSeedLen == 2
\* number of seeds in a sample of matchWishes calls
SampleSize == 20
\* the largest maxPlayers a room is created with
MaxCapacity == 2
\* the handler calls made on a room kept by MockRoomAPI
MaxOps == 5
\* the handler calls made on a room whose store is read and written apart
MaxCalls == 2

\* ------------------------------------------------------ program constants
\* a loop that runs one attempt more
MaxAttemptsPlusOne == 7 + 1

\* for (let attempt = 0; attempt < 7; attempt++)
MaxAttempts == 7
LcgModulus == 233280
LcgIncrement == 49297

\* ------------------------------------------------------------ JS values
\* `undefined` (a missing Map entry, an unset optional field)
Undefined == <<-1>>

\* JavaScript falsiness of a string-or-undefined value: !x
Falsy(x) == x = Undefined \/ x = <<>>

\* a read of the field without the default
OrElseKeep(x, d) == x

\* x || d
OrElse(x, d) == IF Falsy(x) THEN d ELSE x

\* Map.prototype.has / get / set on a sequence of <<key, value>> entries
MapHas(map, key) == \E i \in 1..Len(map) : map[i][1] = key

MapGet(map, key) ==
    IF MapHas(map, key)
    THEN map[CHOOSE i \in 1..Len(map) : map[i][1] = key][2]
    ELSE Undefined

\* new Map()
NewMap == <<>>

\* a Map that forgets to replace an existing key (entries pushed like an array)
MapSetAppend(map, key, val) == Append(map, <<key, val>>)

MapSet(map, key, val) ==
    IF MapHas(map, key)
    THEN [i \in 1..Len(map) |-> IF map[i][1] = key THEN <<key, val>> ELSE map[i]]
    ELSE Append(map, <<key, val>>)

\* new Map(entries): one entry per key, at the position of the key's first
\* occurrence, holding the value of its last occurrence
MapFrom(entries) ==
    LET n == Len(entries)
        indexed == [i \in 1..n |-> <<i, entries[i][1]>>]
        firsts == SelectSeq(indexed, LAMBDA e : \A j \in 1..(e[1] - 1) : entries[j][1] # e[2])
        lastOf(key) == CHOOSE i \in 1..n :
                          entries[i][1] = key /\ \A j \in (i + 1)..n : entries[j][1] # key
    IN  [k \in 1..Len(firsts) |-> << firsts[k][2], entries[lastOf(firsts[k][2])][2] >>]

\* ---------------------------------------------------------- SeededRandom
\* A 32-bit accumulator is the pair <<hi, lo>> of its 16-bit halves
\* (value hi * 65536 + lo taken modulo 2^32, the two's complement bits of the
\* signed value).  The statement  hash = ((hash << 5) - hash) + char  computes
\* the difference and the sum exactly and  hash = hash & hash  then keeps the
\* low 32 bits; the halves keep the low 32 bits after every operation, which
\* leaves the same bits.

\* hash << 5
Shl5(h) ==
    LET low == h[2] * 32
    IN  << (h[1] * 32 + (low \div 65536)) % 65536, low % 65536 >>

\* a - b, the low 32 bits
Sub32(a, b) ==
    LET borrow == IF a[2] < b[2] THEN 1 ELSE 0
    IN  << (a[1] + 65536 - b[1] - borrow) % 65536, (a[2] + 65536 - b[2]) % 65536 >>

\* a + char for a code unit char in 0..65535, the low 32 bits
Add32(a, char) ==
    LET low == a[2] + char
    IN  << (a[1] + (low \div 65536)) % 65536, low % 65536 >>

\* a loop body that shifts by 4 instead of 5
HashStepShift4(hash, char) ==
    LET low == hash[2] * 16
        shl4 == << (hash[1] * 16 + (low \div 65536)) % 65536, low % 65536 >>
    IN  Add32(Sub32(shl4, hash), char)

\* hash = ((hash << 5) - hash) + char; hash = hash & hash
HashStep(hash, char) == Add32(Sub32(Shl5(hash), hash), char)

\* the values of a 32-bit accumulator
Word32 == (0..65535) \X (0..65535)

RECURSIVE HashLoop(_, _, _, _)
\* for (let i = ...; i < n; i++) from index i on, hash being the accumulator
\* at the head of the iteration: a 32-bit value, since every iteration ends
\* with hash & hash
HashLoop(str, i, n, hash) ==
    IF ~(i < n) \/ hash \notin Word32 THEN hash
    ELSE HashLoop(str, i + 1, n, HashStep(hash, str[i + 1]))

\* the accumulator after the first k characters of str (let hash = 0 before)
HashUpTo(str, k) == HashLoop(str, 0, k, <<0, 0>>)

\* the accumulator after the constructor's loop
HashString(str) == HashUpTo(str, Len(str))

\* Math.abs of the signed 32-bit value; the result is in 0..2^31, again as halves
AbsInt32(h) ==
    IF h[1] < 32768 THEN h
    ELSE IF h[2] = 0 THEN << 65536 - h[1], 0 >>
    ELSE << 65535 - h[1], 65536 - h[2] >>

\* constructor(seed): this.seed = Math.abs(hash)
SeededRandomNew(str) == AbsInt32(HashString(str))

\* the step with the increment added after the remainder is taken
LcgNextAddAfter(st) ==
    LET r == ((((st[1] * 256) % LcgModulus) * 256) + st[2]) % LcgModulus
        s == (((((r * 93) % LcgModulus) * 100) + r) % LcgModulus) + LcgIncrement
    IN  << s \div 65536, s % 65536 >>

\* this.seed = (this.seed * 9301 + 49297) % 233280, on the halves; the products
\* are split (9301 = 93 * 100 + 1) so that no intermediate exceeds 2^31 - 1
LcgNext(st) ==
    LET r == ((((st[1] * 256) % LcgModulus) * 256) + st[2]) % LcgModulus
        s == ((((r * 93) % LcgModulus) * 100) + r + LcgIncrement) % LcgModulus
    IN  << s \div 65536, s % 65536 >>

\* the numerator of the value next() returns (state / 233280)
LcgValue(st) == st[1] * 65536 + st[2]

\* Math.floor(this.next() * (i + 1)), i the 0-based index
DrawIndex(st, bound) == (LcgValue(st) * bound) \div LcgModulus

\* an assignment result[i] = result[j] without the exchange
SwapOverwrite(arr, a, b) == [arr EXCEPT ![a] = arr[b]]

\* [result[i], result[j]] = [result[j], result[i]], on 1-based positions
Swap(arr, a, b) == [arr EXCEPT ![a] = arr[b], ![b] = arr[a]]

\* Array objects live in a heap, a sequence of arrays; a reference to an
\* array is its position in the heap.

\* const result = array: the same array object under a second name
SpreadAlias(hp, ref) == [heap |-> hp, result |-> ref]

\* const result = [...array]: a new array object with the elements of
\* heap[ref]; the heap after the statement and the reference result holds
Spread(hp, ref) == [heap |-> Append(hp, hp[ref]), result |-> Len(hp) + 1]

\* one iteration of the loop of shuffle, i the 0-based loop index and st the
\* generator state before it: the state and the heap after it, and the j drawn
ShuffleIteration(st, hp, res, i) ==
    LET st1 == LcgNext(st)
        j == DrawIndex(st1, i + 1)
    IN  [seed |-> st1, heap |-> [hp EXCEPT ![res] = Swap(@, i + 1, j + 1)], j |-> j]

RECURSIVE ShuffleFrom(_, _, _, _)
\* for (...; i > 0; i--) from index i on
ShuffleFrom(st, hp, res, i) ==
    IF ~(i > 0) THEN [seed |-> st, heap |-> hp]
    ELSE LET it == ShuffleIteration(st, hp, res, i)
         IN  ShuffleFrom(it.seed, it.heap, res, i - 1)

\* shuffle(array) on a generator in state st, array being heap[ref]: the
\* generator state and the heap after the call, and the reference returned
ShuffleCall(st, hp, ref) ==
    LET sp == Spread(hp, ref)
        r == ShuffleFrom(st, sp.heap, sp.result, Len(sp.heap[sp.result]) - 1)
    IN  [seed |-> r.seed, heap |-> r.heap, result |-> sp.result]

\* new SeededRandom(str).shuffle(array): the array returned
Shuffle(str, array) ==
    LET c == ShuffleCall(SeededRandomNew(str), <<array>>, 1)
    IN  c.heap[c.result]

\* what new SeededRandom(str).shuffle(array) does to its argument: the
\* argument before and after the call, the array returned, and whether that
\* is another array object than the argument
ShuffleEffect(str, array) ==
    LET c == ShuffleCall(SeededRandomNew(str), <<array>>, 1)
    IN  [before |-> array, after |-> c.heap[1], result |-> c.heap[c.result],
         fresh |-> c.result # 1]

\* ----------------------------------------------------------- the inputs
\* player ids "A", "B", "C", ... and wish ids "wA1", "wA2", ... as in __selfTest
PlayerId(i) == << 64 + i >>

WishId(i, k) == << 119, 64 + i, 48 + k >>

\* group labels 'A', 'B', 'C'; Undefined is a player whose group is unset
GroupLabels == { <<65>>, <<66>>, <<67>> }

\* the seed strings "seed-1" and "seed-2" of __selfTest
Seeds == { <<115, 101, 101, 100, 45, 49>>, <<115, 101, 101, 100, 45, 50>> }

\* Group labels matter to matchWishes only through equality of p.group || 'A':
\* the labels are taken in order of first use ('B' only after an 'A' or unset
\* player, 'C' only after a 'B'), which leaves one input per renaming class.
CanonicalGroups(grp, n) ==
    /\ grp[1] \in {<<65>>, Undefined}
    /\ \A i \in 1..n : grp[i] = <<67>> => \E j \in 1..(i - 1) : grp[j] = <<66>>

RECURSIVE WishesOf(_, _)
\* the wish list confirmAndMatch builds: the players' wishes in player order
WishesOf(cnt, n) ==
    IF n = 0 THEN <<>>
    ELSE WishesOf(cnt, n - 1)
           \o [k \in 1..cnt[n] |-> [id |-> WishId(n, k), ownerId |-> PlayerId(n)]]

\* ------------------------------------------------------------ the state
VARIABLES
    players,            \* the players argument
    wishes,             \* the wishes argument
    seed,               \* the seed argument
    pc,                 \* "attempt" (loop head) | "search" (player loop) | "done"
    attempt,            \* the loop variable of the attempt loop
    candidates,         \* Map p.id -> shuffled candidate list (this attempt)
    playerOrder,        \* shuffled player ids (this attempt)
    idx,                \* 1-based position of the player loop in playerOrder
    wishAssignedTo,     \* Map wish id -> picker id (this attempt)
    pickerAssignedWish, \* Map picker id -> wish id (this attempt)
    okAll,              \* the okAll flag
    outcome,            \* "none" | "ok" | "structural" | "exhausted"
    result,             \* the returned pairs (<<>> until a return)
    errPlayer,          \* the id of the player the structural error names
    started,            \* history: attempt bodies entered in this call
    searches,           \* history: top-level tryMatch calls made in this call
    failed,             \* history: attempts of this call whose search failed
    last,               \* history: the search record of the latest tryMatch call
    call,               \* the number of this call on these inputs (1 for the first)
    first,              \* the seed, outcome, result of the first call
    shuffleArgs,        \* history: the effect of each shuffle call of this attempt
    mappings,           \* history: the picker -> wish mappings earlier calls returned
    \* SeededRandom objects used on their own
    seedString,         \* the string the generators are constructed from
    built,              \* built[k]: instance k has been constructed
    fields,             \* fields[f]: the value of the seed field f
    outs,               \* history: the state numerators next() left on instance k
    heap,               \* the array objects; heap[1] is the caller's array
    frame,              \* the shuffle call in progress (inst = 0: none)
    shuffles,           \* history: the shuffle call instance k has returned from
    \* the greedy matchWishes (it shares players, wishes, seed, pc, idx,
    \* outcome, result and errPlayer with the augmenting-path one)
    withGroups,         \* TRUE: the version with the same-group test
    shuffledWishes,     \* rng.shuffle(wishes)
    pairs,              \* the pairs pushed so far
    usedWishes,         \* the Set of wish ids already given out
    \* one room, its store and the components showing it
    deployment,         \* which room API the components call
    room,               \* the stored room
    local,              \* local[c]: the gameState of component c
    task,               \* task[c]: the API call of c between its read and its write
    error,              \* error[c]: the error message component c shows
    joined,             \* history: the player ids joinRoom has resolved as players
    ops                 \* history: the number of handler calls made

matchVars == << players, wishes, seed, pc, attempt, candidates, playerOrder, idx,
                wishAssignedTo, pickerAssignedWish, okAll, outcome, result, errPlayer,
                started, searches, failed, last, call, first, shuffleArgs >>

randomVars == << seedString, built, fields, outs, heap, frame, shuffles >>

greedyVars == << withGroups, shuffledWishes, pairs, usedWishes >>

roomVars == << deployment, room, local, task, error, joined, ops >>

vars == << matchVars, mappings, randomVars, greedyVars, roomVars >>

\* --------------------------------------------------------- matchWishes
\* an attempt seed that also mixes in how often matchWishes has been called
AttemptSeedCounting(base, n) == base \o <<124>> \o << 48 + n + call - 1 >>

\* an attempt seed that leaves out the caller's seed
AttemptSeedNoBase(base, n) == <<124>> \o << 48 + n >>

\* const attemptSeed = seed + '|' + attempt  (attempt is one decimal digit)
AttemptSeed(base, n) == base \o <<124>> \o << 48 + n >>

\* attemptSeed + '#cand#' + p.id
CandSeed(attemptSeed, id) == attemptSeed \o <<35, 99, 97, 110, 100, 35>> \o id

\* attemptSeed + '#order'
OrderSeed(attemptSeed) == attemptSeed \o <<35, 111, 114, 100, 101, 114>>

\* new Map(players.map(p => [p.id, p.group || 'A']))
GroupOfMap(ps) == MapFrom([i \in 1..Len(ps) |-> << ps[i].id, OrElse(ps[i].group, <<65>>) >>])

\* new Map(wishes.map(w => [w.id, w]))
WishByIdMap(ws) == MapFrom([i \in 1..Len(ws) |-> << ws[i].id, ws[i] >>])

\* groupOf.get(id) || 'A'
GroupOf(groupOf, id) == OrElse(MapGet(groupOf, id), <<65>>)

\* a filter that lets every wish through
EligibleAny(groupOf, w, p) == TRUE

\* a filter that forgets the group comparison
EligibleSelfOnly(groupOf, w, p) == w.ownerId # p.id

\* the filter predicate: w.ownerId !== p.id && ownerGroup !== myGroup
Eligible(groupOf, w, p) ==
    w.ownerId # p.id /\ GroupOf(groupOf, w.ownerId) # GroupOf(groupOf, p.id)

\* allWishIds.filter(...) for player p: the eligible wish ids in wish order
CandidateList(groupOf, wishById, allWishIds, p) ==
    SelectSeq(allWishIds, LAMBDA id : Eligible(groupOf, MapGet(wishById, id), p))

\* the filtered lists of all players, in player order
CandidateLists(ps, ws) ==
    LET groupOf == GroupOfMap(ps)
        wishById == WishByIdMap(ws)
        allWishIds == [i \in 1..Len(ws) |-> ws[i].id]
    IN  [i \in 1..Len(ps) |-> CandidateList(groupOf, wishById, allWishIds, ps[i])]

\* a loop body without the length check
EmptyListNever(list) == FALSE

\* if (!list.length) throw
EmptyList(list) == Len(list) = 0

\* the index of the first player, in player order, whose candidate list is
\* empty (the one the throw names); 0 when there is none
FirstEmpty(lists) ==
    LET stuck == { i \in 1..Len(lists) : EmptyList(lists[i]) }
    IN  IF stuck = {} THEN 0 ELSE CHOOSE i \in stuck : \A j \in stuck : i <= j

\* the effects of the calls
\*   new SeededRandom(attemptSeed + '#cand#' + p.id).shuffle(list)
\* made for the players ps, in order
ShuffleEffects(ps, lists, attemptSeed) ==
    [i \in 1..Len(ps) |-> ShuffleEffect(CandSeed(attemptSeed, ps[i].id), lists[i])]

\* a candidates Map that keeps only the first wish of each shuffled list
\* (every player draws one wish at random)
CandidatesMapFirstOnly(ps, shuffled) ==
    MapFrom([i \in 1..Len(ps) |-> << ps[i].id, SubSeq(shuffled[i].result, 1, 1) >>])

\* the candidates Map of one attempt: p.id -> shuffled candidate list
CandidatesMap(ps, shuffled) ==
    MapFrom([i \in 1..Len(ps) |-> << ps[i].id, shuffled[i].result >>])

\* the effect of the call
\*   new SeededRandom(attemptSeed + '#order').shuffle(players.map(p => p.id))
OrderEffect(ps, attemptSeed) ==
    ShuffleEffect(OrderSeed(attemptSeed), [i \in 1..Len(ps) |-> ps[i].id])

\* The search state of one top-level tryMatch call:
\*   ok      the value the call returns
\*   seen    the Set passed down the recursion
\*   wat     wishAssignedTo,  paw  pickerAssignedWish
\*   depth   the deepest nesting of tryMatch calls so far, cur the current one
\*   looks   the number of seen.add(wid) executed
NewSearch(wat, paw) ==
    [ok |-> FALSE, seen |-> {}, wat |-> wat, paw |-> paw,
     depth |-> 0, cur |-> 0, looks |-> 0]

RECURSIVE TryMatchFromCopy(_, _, _, _)
\* a tryMatch that hands a copy of the Set to the nested call (new Set(seen)):
\* what the nested call has seen is forgotten when it returns
TryMatchFromCopy(cands, pickerId, k, m) ==
    LET opts == MapGet(cands, pickerId)
    IN  IF k > Len(opts) THEN [m EXCEPT !.ok = FALSE]
        ELSE LET wid == opts[k]
             IN  IF wid \in m.seen THEN TryMatchFromCopy(cands, pickerId, k + 1, m)
                 ELSE LET m1 == [m EXCEPT !.seen = @ \cup {wid}, !.looks = @ + 1]
                          cur == MapGet(m1.wat, wid)
                      IN  IF Falsy(cur)
                          THEN [m1 EXCEPT !.ok = TRUE,
                                          !.wat = MapSet(@, wid, pickerId),
                                          !.paw = MapSet(@, pickerId, wid)]
                          ELSE LET in == [m1 EXCEPT !.cur = @ + 1,
                                                    !.depth = IF m1.cur + 1 > @ THEN m1.cur + 1 ELSE @]
                                   r == TryMatchFromCopy(cands, cur, 1, in)
                                   out == [r EXCEPT !.cur = m1.cur, !.seen = m1.seen]
                               IN  IF r.ok
                                   THEN [out EXCEPT !.wat = MapSet(@, wid, pickerId),
                                                    !.paw = MapSet(@, pickerId, wid)]
                                   ELSE TryMatchFromCopy(cands, pickerId, k + 1, out)

RECURSIVE TryMatchFromFirstFit(_, _, _, _)
\* a tryMatch without the nested call: a wish that is taken is passed over
TryMatchFromFirstFit(cands, pickerId, k, m) ==
    LET opts == MapGet(cands, pickerId)
    IN  IF k > Len(opts) THEN [m EXCEPT !.ok = FALSE]
        ELSE LET wid == opts[k]
             IN  IF wid \in m.seen THEN TryMatchFromFirstFit(cands, pickerId, k + 1, m)
                 ELSE LET m1 == [m EXCEPT !.seen = @ \cup {wid}, !.looks = @ + 1]
                          cur == MapGet(m1.wat, wid)
                      IN  IF Falsy(cur)
                          THEN [m1 EXCEPT !.ok = TRUE,
                                          !.wat = MapSet(@, wid, pickerId),
                                          !.paw = MapSet(@, pickerId, wid)]
                          ELSE TryMatchFromFirstFit(cands, pickerId, k + 1, m1)

RECURSIVE TryMatchFrom(_, _, _, _)
\* the for loop of tryMatch(pickerId, seen) from option k on
TryMatchFrom(cands, pickerId, k, m) ==
    LET opts == MapGet(cands, pickerId)
    IN  IF k > Len(opts) THEN [m EXCEPT !.ok = FALSE]
        ELSE LET wid == opts[k]
             IN  IF wid \in m.seen THEN TryMatchFrom(cands, pickerId, k + 1, m)
                 ELSE LET m1 == [m EXCEPT !.seen = @ \cup {wid}, !.looks = @ + 1]
                          cur == MapGet(m1.wat, wid)
                      IN  IF Falsy(cur)
                          THEN [m1 EXCEPT !.ok = TRUE,
                                          !.wat = MapSet(@, wid, pickerId),
                                          !.paw = MapSet(@, pickerId, wid)]
                          ELSE LET in == [m1 EXCEPT !.cur = @ + 1,
                                                    !.depth = IF m1.cur + 1 > @ THEN m1.cur + 1 ELSE @]
                                   r == TryMatchFrom(cands, cur, 1, in)
                                   out == [r EXCEPT !.cur = m1.cur]
                               IN  IF r.ok
                                   THEN [out EXCEPT !.wat = MapSet(@, wid, pickerId),
                                                    !.paw = MapSet(@, pickerId, wid)]
                                   ELSE TryMatchFrom(cands, pickerId, k + 1, out)

\* a player loop whose tryMatch starts at the second option (index 1)
TryMatchSkipFirst(cands, pickerId, wat, paw) ==
    TryMatchFrom(cands, pickerId, 2, [NewSearch(wat, paw) EXCEPT !.cur = 1, !.depth = 1])

\* a tryMatch whose last statement is `return true`
TryMatchAlwaysTrue(cands, pickerId, wat, paw) ==
    [TryMatchFrom(cands, pickerId, 1,
                  [NewSearch(wat, paw) EXCEPT !.cur = 1, !.depth = 1]) EXCEPT !.ok = TRUE]

\* tryMatch(pid, new Set()) called from the player loop
TryMatch(cands, pickerId, wat, paw) ==
    TryMatchFrom(cands, pickerId, 1, [NewSearch(wat, paw) EXCEPT !.cur = 1, !.depth = 1])

\* pairs built with the two fields exchanged
PairsOfSwapped(paw) == [i \in 1..Len(paw) |-> [pickerId |-> paw[i][2], wishId |-> paw[i][1]]]

\* for (const [pickerId, wishId] of pickerAssignedWish.entries()) pairs.push(...)
PairsOf(paw) == [i \in 1..Len(paw) |-> [pickerId |-> paw[i][1], wishId |-> paw[i][2]]]

inputs == << players, wishes >>

NoFirst == [seed |-> <<>>, outcome |-> "none", result |-> <<>>, errPlayer |-> Undefined]

\* the state on entry of matchWishes
Entry ==
    /\ pc = "attempt"
    /\ attempt = 0
    /\ candidates = <<>>
    /\ playerOrder = <<>>
    /\ idx = 1
    /\ wishAssignedTo = <<>>
    /\ pickerAssignedWish = <<>>
    /\ okAll = TRUE
    /\ outcome = "none"
    /\ result = <<>>
    /\ errPlayer = Undefined
    /\ started = 0
    /\ searches = 0
    /\ failed = 0
    /\ last = NewSearch(<<>>, <<>>)
    /\ shuffleArgs = <<>>

\* the two SeededRandom instances of the generator's own specification
Instances == {1, 2}

NoFrame == [inst |-> 0, result |-> 0, i |-> 0, at |-> 0, j |-> 0, draws |-> 0, before |-> 0]

NoShuffle == [result |-> 0, draws |-> 0, before |-> 0]

\* the greedy matchWishes is not called
GreedyIdle ==
    /\ withGroups = TRUE
    /\ shuffledWishes = <<>>
    /\ pairs = <<>>
    /\ usedWishes = {}

\* no room has been created
NoRoom == [players |-> <<>>, maxPlayers |-> 0, stage |-> "NONE", wishes |-> <<>>,
           pairs |-> <<>>, seed |-> <<>>]

RoomIdle ==
    /\ deployment = "none"
    /\ room = NoRoom
    /\ local = <<>>
    /\ task = <<>>
    /\ error = <<>>
    /\ joined = {}
    /\ ops = 0

\* no generator is used on its own
RandomIdle ==
    /\ seedString = <<>>
    /\ built = [k \in Instances |-> FALSE]
    /\ fields = [k \in Instances |-> Undefined]
    /\ outs = [k \in Instances |-> <<>>]
    /\ heap = <<>>
    /\ frame = NoFrame
    /\ shuffles = [k \in Instances |-> NoShuffle]

Init ==
    /\ \E n \in 1..MaxPlayers :
         \E grp \in [1..n -> GroupLabels \cup {Undefined}], cnt \in [1..n -> 0..MaxWishes] :
            /\ CanonicalGroups(grp, n)
            /\ players = [i \in 1..n |-> [id |-> PlayerId(i), group |-> grp[i]]]
            /\ wishes = WishesOf(cnt, n)
    /\ seed \in Seeds
    /\ call = 1
    /\ first = NoFirst
    /\ Entry
    /\ mappings = {}
    /\ RandomIdle
    /\ GreedyIdle
    /\ RoomIdle

\* The head of one attempt (lines 196-217): the candidate lists in player
\* order, the throw at the first empty one, the shuffles and the fresh maps.
\* With no player at all the player loop is empty and [] is returned.
StartAttempt ==
    /\ pc = "attempt"
    /\ attempt < MaxAttempts
    /\ started' = started + 1
    /\ LET attemptSeed == AttemptSeed(seed, attempt)
       IN  \E lists \in { CandidateLists(players, wishes) } :
           \E shuffled \in { ShuffleEffects(players, lists, attemptSeed) } :
           \E order \in { OrderEffect(players, attemptSeed) } :
           LET stuck == FirstEmpty(lists)
           IN  IF stuck # 0
               THEN /\ outcome' = "structural"
                    /\ errPlayer' = players[stuck].id
                    /\ pc' = "done"
                    /\ shuffleArgs' = SubSeq(shuffled, 1, stuck - 1)
                    /\ UNCHANGED << candidates, playerOrder, idx, wishAssignedTo,
                                    pickerAssignedWish, okAll, result >>
               ELSE /\ candidates' = CandidatesMap(players, shuffled)
                    /\ playerOrder' = order.result
                    /\ shuffleArgs' = Append(shuffled, order)
                    /\ wishAssignedTo' = NewMap
                    /\ pickerAssignedWish' = NewMap
                    /\ okAll' = TRUE
                    /\ idx' = 1
                    /\ IF Len(players) = 0
                       THEN /\ result' = PairsOf(NewMap)
                            /\ outcome' = "ok"
                            /\ pc' = "done"
                       ELSE /\ pc' = "search"
                            /\ UNCHANGED << result, outcome >>
                    /\ UNCHANGED errPlayer
    /\ UNCHANGED << inputs, seed, attempt, searches, failed, last, call, first >>
    /\ UNCHANGED << mappings, randomVars, greedyVars, roomVars >>

\* One iteration of the player loop (lines 235-237): a top-level tryMatch,
\* and, when the loop ends with it, the rest of the attempt body (lines
\* 238-245): okAll returns the pairs, a failed search goes to the next attempt.
SearchStep ==
    /\ pc = "search"
    /\ idx <= Len(playerOrder)
    /\ \E r \in { TryMatch(candidates, playerOrder[idx], wishAssignedTo, pickerAssignedWish) } :
           /\ last' = r
           /\ wishAssignedTo' = r.wat
           /\ pickerAssignedWish' = r.paw
           /\ searches' = searches + 1
           /\ IF ~r.ok
              THEN /\ okAll' = FALSE
                   /\ idx' = idx
                   /\ attempt' = attempt + 1
                   /\ failed' = failed + 1
                   /\ pc' = "attempt"
                   /\ UNCHANGED << result, outcome >>
              ELSE /\ okAll' = okAll
                   /\ idx' = idx + 1
                   /\ UNCHANGED << attempt, failed >>
                   /\ IF idx + 1 <= Len(playerOrder)
                      THEN /\ pc' = "search"
                           /\ UNCHANGED << result, outcome >>
                      ELSE /\ result' = PairsOf(r.paw)
                           /\ outcome' = "ok"
                           /\ pc' = "done"
    /\ UNCHANGED << inputs, seed, candidates, playerOrder, errPlayer, started, call, first >>
    /\ UNCHANGED << shuffleArgs, mappings, randomVars, greedyVars, roomVars >>

\* The throw after the loop (line 246).
ThrowExhausted ==
    /\ pc = "attempt"
    /\ ~(attempt < MaxAttempts)
    /\ outcome' = "exhausted"
    /\ pc' = "done"
    /\ UNCHANGED << inputs, seed, attempt, candidates, playerOrder, idx, wishAssignedTo,
                    pickerAssignedWish, okAll, result, errPlayer, started, searches,
                    failed, last, call, first >>
    /\ UNCHANGED << shuffleArgs, mappings, randomVars, greedyVars, roomVars >>

\* A second, independent call of matchWishes on the same players and wishes,
\* with the same or another seed: every local is created anew.
CallAgain ==
    /\ pc = "done"
    /\ call = 1
    /\ first' = [seed |-> seed, outcome |-> outcome, result |-> result,
                 errPlayer |-> errPlayer]
    /\ call' = 2
    /\ seed' \in Seeds
    /\ pc' = "attempt"
    /\ attempt' = 0
    /\ candidates' = <<>>
    /\ playerOrder' = <<>>
    /\ idx' = 1
    /\ wishAssignedTo' = <<>>
    /\ pickerAssignedWish' = <<>>
    /\ okAll' = TRUE
    /\ outcome' = "none"
    /\ result' = <<>>
    /\ errPlayer' = Undefined
    /\ started' = 0
    /\ searches' = 0
    /\ failed' = 0
    /\ last' = NewSearch(<<>>, <<>>)
    /\ shuffleArgs' = <<>>
    /\ UNCHANGED inputs
    /\ UNCHANGED << mappings, randomVars, greedyVars, roomVars >>

Next ==
    \/ StartAttempt
    \/ SearchStep
    \/ ThrowExhausted

\* one call of matchWishes on every input within the bounds
Spec == Init /\ [][Next]_vars

\* the first call of a pair of calls is made with the seed "seed-1"
InitTwice == Init /\ seed = <<115, 101, 101, 100, 45, 49>>

NextTwice ==
    \/ StartAttempt
    \/ SearchStep
    \/ ThrowExhausted
    \/ CallAgain

\* two calls of matchWishes on the same players and wishes
SpecTwice == InitTwice /\ [][NextTwice]_vars

\* ------------------------------------------- SeededRandom used on its own
\* Two SeededRandom objects are constructed from one seed string and used by
\* a single-threaded caller: next() calls on either object in any order, and
\* on each object at most one shuffle of the caller's array heap[1].  A
\* shuffle call runs to its return before the caller's next statement.

\* all every instance would share one seed field
FieldShared(k) == 1

\* private seed: number  -- the field of instance k
FieldOf(k) == k

\* the code units of the short seed strings: 'a' and U+FFFF
Alphabet == { 97, 65535 }

ShortStrings == UNION { [1..n -> Alphabet] : n \in 0..MaxSeedLen }

\* "Gycxf_", whose hash is -2^31
MinHashSeed == << 71, 121, 99, 120, 102, 95 >>

\* seed strings: the short ones, the one with the least hash, and strings
\* matchWishes constructs generators from
SeedStrings ==
    ShortStrings \cup { MinHashSeed } \cup Seeds
      \cup { OrderSeed(AttemptSeed(s, 0)) : s \in Seeds }
      \cup { CandSeed(AttemptSeed(s, MaxAttempts - 1), PlayerId(2)) : s \in Seeds }

\* the arrays handed to shuffle: of every length up to MaxLen, one with
\* distinct elements and one in which the first element occurs twice
Arrays ==
    { [i \in 1..n |-> PlayerId(i)] : n \in 0..MaxLen }
      \cup { [i \in 1..n |-> PlayerId(IF i = 1 THEN 1 ELSE i - 1)] : n \in 2..MaxLen }

\* no call of matchWishes is in progress
MatchIdle ==
    /\ players = <<>>
    /\ wishes = <<>>
    /\ seed = <<>>
    /\ call = 1
    /\ first = NoFirst
    /\ pc = "done"
    /\ attempt = 0
    /\ candidates = NewMap
    /\ playerOrder = <<>>
    /\ idx = 1
    /\ wishAssignedTo = NewMap
    /\ pickerAssignedWish = NewMap
    /\ okAll = TRUE
    /\ outcome = "none"
    /\ result = <<>>
    /\ errPlayer = Undefined
    /\ started = 0
    /\ searches = 0
    /\ failed = 0
    /\ last = NewSearch(<<>>, <<>>)
    /\ shuffleArgs = <<>>
    /\ mappings = {}

InitRandom ==
    /\ MatchIdle
    /\ GreedyIdle
    /\ RoomIdle
    /\ seedString \in SeedStrings
    /\ heap \in { << array >> : array \in Arrays }
    /\ built = [k \in Instances |-> FALSE]
    /\ fields = [k \in Instances |-> Undefined]
    /\ outs = [k \in Instances |-> <<>>]
    /\ frame = NoFrame
    /\ shuffles = [k \in Instances |-> NoShuffle]

\* new SeededRandom(seedString)
Construct(k) ==
    /\ ~built[k]
    /\ frame.inst = 0
    /\ built' = [built EXCEPT ![k] = TRUE]
    /\ fields' = [fields EXCEPT ![FieldOf(k)] = SeededRandomNew(seedString)]
    /\ UNCHANGED << seedString, outs, heap, frame, shuffles >>
    /\ UNCHANGED << matchVars, mappings, greedyVars, roomVars >>

\* next() called by the caller
CallNext(k) ==
    /\ built[k]
    /\ frame.inst = 0
    /\ Len(outs[k]) < MaxDraws
    /\ LET st == LcgNext(fields[FieldOf(k)])
       IN  /\ fields' = [fields EXCEPT ![FieldOf(k)] = st]
           /\ outs' = [outs EXCEPT ![k] = Append(@, LcgValue(st))]
    /\ UNCHANGED << seedString, built, heap, frame, shuffles >>
    /\ UNCHANGED << matchVars, mappings, greedyVars, roomVars >>

\* shuffle(array) entered: const result = [...array]; let i = result.length - 1
ShuffleEnter(k) ==
    /\ built[k]
    /\ frame.inst = 0
    /\ shuffles[k] = NoShuffle
    /\ LET sp == Spread(heap, 1)
       IN  /\ heap' = sp.heap
           /\ frame' = [inst |-> k, result |-> sp.result,
                        i |-> Len(sp.heap[sp.result]) - 1,
                        at |-> 0, j |-> 0, draws |-> 0, before |-> Len(outs[k])]
    /\ UNCHANGED << seedString, built, fields, outs, shuffles >>
    /\ UNCHANGED << matchVars, mappings, greedyVars, roomVars >>

\* one iteration of the loop of shuffle: i > 0; draw j; swap; i--
ShuffleIterate ==
    /\ frame.inst # 0
    /\ frame.i > 0
    /\ LET k == frame.inst
           it == ShuffleIteration(fields[FieldOf(k)], heap, frame.result, frame.i)
       IN  /\ fields' = [fields EXCEPT ![FieldOf(k)] = it.seed]
           /\ heap' = it.heap
           /\ outs' = [outs EXCEPT ![k] = Append(@, LcgValue(it.seed))]
           /\ frame' = [frame EXCEPT !.at = frame.i, !.j = it.j,
                                     !.i = frame.i - 1, !.draws = @ + 1]
    /\ UNCHANGED << seedString, built, shuffles >>
    /\ UNCHANGED << matchVars, mappings, greedyVars, roomVars >>

\* the loop of shuffle ends: return result
ShuffleReturn ==
    /\ frame.inst # 0
    /\ ~(frame.i > 0)
    /\ shuffles' = [shuffles EXCEPT ![frame.inst] =
                       [result |-> frame.result, draws |-> frame.draws,
                        before |-> frame.before]]
    /\ frame' = NoFrame
    /\ UNCHANGED << seedString, built, fields, outs, heap >>
    /\ UNCHANGED << matchVars, mappings, greedyVars, roomVars >>

NextRandom ==
    \/ \E k \in Instances : Construct(k)
    \/ \E k \in Instances : CallNext(k)
    \/ \E k \in Instances : ShuffleEnter(k)
    \/ ShuffleIterate
    \/ ShuffleReturn

\* two generators constructed from the same seed string
SpecRandom == InitRandom /\ [][NextRandom]_vars

\* ------------------------------------------- a sample of seed strings
\* matchWishes is called with SampleSize distinct seed strings, one call after
\* the other, on four players in two groups of two who own two wishes each.

RECURSIVE Decimal(_)

\* the decimal digits of k
Decimal(k) == IF k < 10 THEN << 48 + k >> ELSE Decimal(k \div 10) \o << 48 + (k % 10) >>

\* the k-th seed string of the sample: "seed-1", "seed-2", ...
SampleSeed(k) == << 115, 101, 101, 100, 45 >> \o Decimal(k)

\* the mapping picker -> wish of a returned pair list
MappingOf(list) == { << list[i].pickerId, list[i].wishId >> : i \in 1..Len(list) }

InitSample ==
    /\ \E grp \in [1..4 -> { <<65>>, <<66>> }] :
          /\ grp[1] = <<65>>
          /\ Cardinality({ i \in 1..4 : grp[i] = <<65>> }) = 2
          /\ players = [i \in 1..4 |-> [id |-> PlayerId(i), group |-> grp[i]]]
          /\ wishes = WishesOf([i \in 1..4 |-> 2], 4)
    /\ seed = SampleSeed(1)
    /\ call = 1
    /\ first = NoFirst
    /\ Entry
    /\ mappings = {}
    /\ RandomIdle
    /\ GreedyIdle
    /\ RoomIdle

\* the call has ended; matchWishes is called with the next seed of the sample
NextSeed ==
    /\ pc = "done"
    /\ call < SampleSize
    /\ mappings' = mappings \cup { MappingOf(result) }
    /\ call' = call + 1
    /\ seed' = SampleSeed(call + 1)
    /\ pc' = "attempt"
    /\ attempt' = 0
    /\ candidates' = <<>>
    /\ playerOrder' = <<>>
    /\ idx' = 1
    /\ wishAssignedTo' = <<>>
    /\ pickerAssignedWish' = <<>>
    /\ okAll' = TRUE
    /\ outcome' = "none"
    /\ result' = <<>>
    /\ errPlayer' = Undefined
    /\ started' = 0
    /\ searches' = 0
    /\ failed' = 0
    /\ last' = NewSearch(<<>>, <<>>)
    /\ shuffleArgs' = <<>>
    /\ UNCHANGED << inputs, first, randomVars, greedyVars, roomVars >>

\* The throw after seven failed attempts is left out: no call on these
\* players reaches it (its guard is never true, see C17_SeedSensitivity).
NextSample ==
    \/ StartAttempt
    \/ SearchStep
    \/ NextSeed

SpecSample == InitSample /\ [][NextSample]_vars

\* ------------------------------------------------ the greedy matchWishes
\* matchWishes of the shipped component, and its earlier version without
\* groups: one shuffle of the wish list, then every player in input order
\* takes the first wish of that list which passes the test of the inner loop.

\* the test of the inner loop without the usedWishes test
GreedyTestUsedAgain(groupOf, used, wish, player, grouped) ==
    /\ wish.ownerId # player.id
    /\ grouped => GroupOf(groupOf, wish.ownerId) # GroupOf(groupOf, player.id)

\* !usedWishes.has(wish.id) && wish.ownerId !== player.id && ownerGroup !== myGroup
\* (the last conjunct only in the version with groups)
GreedyTest(groupOf, used, wish, player, grouped) ==
    /\ wish.id \notin used
    /\ wish.ownerId # player.id
    /\ grouped => GroupOf(groupOf, wish.ownerId) # GroupOf(groupOf, player.id)

RECURSIVE LastFit(_, _, _, _, _, _)
\* the inner loop without its break: the last wish that passes the test
LastFit(groupOf, shuffled, used, player, grouped, k) ==
    LET later == IF k >= Len(shuffled) THEN 0
                 ELSE LastFit(groupOf, shuffled, used, player, grouped, k + 1)
    IN  IF k > Len(shuffled) THEN 0
        ELSE IF later # 0 THEN later
        ELSE IF GreedyTest(groupOf, used, shuffled[k], player, grouped) THEN k
        ELSE 0

RECURSIVE FirstFit(_, _, _, _, _, _)
\* for (const wish of shuffledWishes) { if (test) { ...; break } }: the
\* position from k on of the wish the loop stops at, 0 when it runs to the end
FirstFit(groupOf, shuffled, used, player, grouped, k) ==
    IF k > Len(shuffled) THEN 0
    ELSE IF GreedyTest(groupOf, used, shuffled[k], player, grouped) THEN k
    ELSE FirstFit(groupOf, shuffled, used, player, grouped, k + 1)

\* one iteration of for (const player of players): assigned is false when
\* the inner loop has run to its end (the call then throws)
GreedyIteration(groupOf, shuffled, player, prs, used, grouped) ==
    LET k == FirstFit(groupOf, shuffled, used, player, grouped, 1)
    IN  IF k = 0 THEN [assigned |-> FALSE, pairs |-> prs, used |-> used]
        ELSE [assigned |-> TRUE,
              pairs |-> Append(prs, [pickerId |-> player.id, wishId |-> shuffled[k].id]),
              used |-> used \cup { shuffled[k].id }]

RECURSIVE GreedyFrom(_, _, _, _, _, _, _)
\* the player loop from player i on, and the return or the throw
GreedyFrom(groupOf, shuffled, ps, i, prs, used, grouped) ==
    IF i > Len(ps) THEN [ok |-> TRUE, pairs |-> prs]
    ELSE LET it == GreedyIteration(groupOf, shuffled, ps[i], prs, used, grouped)
         IN  IF ~it.assigned THEN [ok |-> FALSE, pairs |-> <<>>]
             ELSE GreedyFrom(groupOf, shuffled, ps, i + 1, it.pairs, it.used, grouped)

\* a whole call of the greedy matchWishes(ps, ws, str): ok is false when it throws
GreedyMatch(ps, ws, str) ==
    GreedyFrom(GroupOfMap(ps), ShuffleEffect(str, ws).result, ps, 1, <<>>, {}, TRUE)

RECURSIVE SearchFrom(_, _, _, _, _)
\* the player loop of one attempt from position i of the order on
SearchFrom(cands, order, i, wat, paw) ==
    IF i > Len(order) THEN [ok |-> TRUE, paw |-> paw]
    ELSE LET r == TryMatch(cands, order[i], wat, paw)
         IN  IF ~r.ok THEN [ok |-> FALSE, paw |-> r.paw]
             ELSE SearchFrom(cands, order, i + 1, r.wat, r.paw)

RECURSIVE AttemptsFrom(_, _, _, _)
\* the attempt loop from attempt n on, and the return or the throw
AttemptsFrom(ps, ws, str, n) ==
    IF ~(n < MaxAttempts) THEN [ok |-> FALSE, pairs |-> <<>>]
    ELSE LET attemptSeed == AttemptSeed(str, n)
             lists == CandidateLists(ps, ws)
         IN  IF FirstEmpty(lists) # 0 THEN [ok |-> FALSE, pairs |-> <<>>]
             ELSE LET shuffled == ShuffleEffects(ps, lists, attemptSeed)
                      order == OrderEffect(ps, attemptSeed)
                      found == SearchFrom(CandidatesMap(ps, shuffled), order.result, 1,
                                          NewMap, NewMap)
                  IN  IF found.ok THEN [ok |-> TRUE, pairs |-> PairsOf(found.paw)]
                      ELSE AttemptsFrom(ps, ws, str, n + 1)

\* a whole call of the augmenting-path matchWishes(ps, ws, str)
AugmentingMatch(ps, ws, str) == AttemptsFrom(ps, ws, str, 0)

\* "seed-1", "seed-2" and "seed-9": the shuffle of a three-wish list leaves
\* the last wish in place under the first two and moves it under the third
GreedySeeds == Seeds \cup { SampleSeed(9) }

\* the augmenting-path matchWishes is not called
AugIdle ==
    /\ attempt = 0
    /\ candidates = NewMap
    /\ playerOrder = <<>>
    /\ wishAssignedTo = NewMap
    /\ pickerAssignedWish = NewMap
    /\ okAll = TRUE
    /\ started = 0
    /\ searches = 0
    /\ failed = 0
    /\ last = NewSearch(<<>>, <<>>)
    /\ shuffleArgs = <<>>
    /\ call = 1
    /\ first = NoFirst
    /\ mappings = {}

InitGreedy ==
    /\ \E n \in 1..MaxPlayers :
         \E grp \in [1..n -> GroupLabels \cup {Undefined}], cnt \in [1..n -> 0..MaxWishes] :
            /\ CanonicalGroups(grp, n)
            /\ players = [i \in 1..n |-> [id |-> PlayerId(i), group |-> grp[i]]]
            /\ wishes = WishesOf(cnt, n)
    /\ seed \in GreedySeeds
    /\ withGroups \in BOOLEAN
    /\ pc = "shuffle"
    /\ idx = 1
    /\ outcome = "none"
    /\ result = <<>>
    /\ errPlayer = Undefined
    /\ shuffledWishes = <<>>
    /\ pairs = <<>>
    /\ usedWishes = {}
    /\ AugIdle
    /\ RandomIdle
    /\ RoomIdle

greedyUnchanged == << attempt, candidates, playerOrder, wishAssignedTo, pickerAssignedWish,
                      okAll, started, searches, failed, last, shuffleArgs, call, first,
                      mappings, randomVars, roomVars >>

\* const rng = new SeededRandom(seed); const shuffledWishes = rng.shuffle(wishes);
\* const pairs = []; const usedWishes = new Set()
GreedyShuffle ==
    /\ pc = "shuffle"
    /\ shuffledWishes' = ShuffleEffect(seed, wishes).result
    /\ pairs' = <<>>
    /\ usedWishes' = {}
    /\ idx' = 1
    /\ pc' = "loop"
    /\ UNCHANGED << inputs, seed, withGroups, outcome, result, errPlayer >>
    /\ UNCHANGED greedyUnchanged

\* one iteration of for (const player of players): the push of the pair, or
\* the throw when no wish passes the test
GreedyPlayer ==
    /\ pc = "loop"
    /\ idx <= Len(players)
    /\ \E it \in { GreedyIteration(GroupOfMap(players), shuffledWishes, players[idx],
                                   pairs, usedWishes, withGroups) } :
         IF ~it.assigned
         THEN /\ pc' = "done"
              /\ outcome' = "stranded"
              /\ errPlayer' = players[idx].id
              /\ UNCHANGED << pairs, usedWishes, idx >>
         ELSE /\ pairs' = it.pairs
              /\ usedWishes' = it.used
              /\ idx' = idx + 1
              /\ UNCHANGED << pc, outcome, errPlayer >>
    /\ UNCHANGED << inputs, seed, withGroups, shuffledWishes, result >>
    /\ UNCHANGED greedyUnchanged

\* return pairs
GreedyReturn ==
    /\ pc = "loop"
    /\ idx > Len(players)
    /\ pc' = "done"
    /\ outcome' = "ok"
    /\ result' = pairs
    /\ UNCHANGED << inputs, seed, withGroups, shuffledWishes, pairs, usedWishes, idx, errPlayer >>
    /\ UNCHANGED greedyUnchanged

NextGreedy ==
    \/ GreedyShuffle
    \/ GreedyPlayer
    \/ GreedyReturn

SpecGreedy == InitGreedy /\ [][NextGreedy]_vars

\* --------------------------------------------------------------- rooms
\* One room, the store that keeps it and the components that show it.
\*   deployment "shipped"   the shipped component on its MockRoomAPI
\*              "local"     its copy with the augmenting-path matchWishes
\*              "supabase"  the component that loads and saves the room row
\*              "firestore" FirestoreRoomAPI, called with the edit updaters
\* MockRoomAPI is synchronous: a call reads and writes in one step.  The other
\* two read the room, await, and write what they computed from that read.

Sync == deployment \in {"shipped", "local"}

roomUnchanged == << matchVars, mappings, randomVars, greedyVars >>

Clients == DOMAIN local

RECURSIVE TrimStart(_)
TrimStart(text) ==
    IF text # <<>> /\ Head(text) = 32 THEN TrimStart(Tail(text)) ELSE text

RECURSIVE TrimEnd(_)
TrimEnd(text) ==
    IF text # <<>> /\ text[Len(text)] = 32 THEN TrimEnd(SubSeq(text, 1, Len(text) - 1))
    ELSE text

\* text.trim()
Trim(text) == TrimEnd(TrimStart(text))

\* sanitizeText / clean: text.trim().replace(/\s+/g, ' ').slice(0, 120); the
\* texts typed here have one character at most
SanitizeText(text) == Trim(text)

\* what is typed into a wish input: '', ' ' and 'x'
Texts == { <<>>, <<32>>, <<120>> }

\* p.wishes.filter(w => w.trim())
NonBlank(ws) == SelectSeq(ws, LAMBDA w : Trim(w) # <<>>)

\* ['A', 'B', 'C', 'D']
RoomGroups == << <<65>>, <<66>>, <<67>>, <<68>> >>

\* the groups chosen in the select of the player card
GroupChoices == { <<65>>, <<66>> }

\* groups[counts.indexOf(Math.min(...counts))]
LeastGroup(ps) ==
    LET counts == [g \in 1..Len(RoomGroups) |->
                      Cardinality({ i \in 1..Len(ps) : ps[i].group = RoomGroups[g] })]
        least == CHOOSE g \in 1..Len(RoomGroups) :
                    /\ \A h \in 1..Len(RoomGroups) : counts[g] <= counts[h]
                    /\ \A h \in 1..(g - 1) : counts[h] > counts[g]
    IN  RoomGroups[least]

\* a capacity test that lets one player too many in
RoomFullAbove(r) == Len(r.players) > r.maxPlayers

\* room.players.length >= room.maxPlayers
RoomFull(r) == Len(r.players) >= r.maxPlayers

\* the player joinRoom adds; FirestoreRoomAPI sets no group
NewPlayer(id, name) ==
    [id |-> id, name |-> name, wishes |-> << <<>>, <<>> >>, isOwner |-> FALSE,
     locked |-> FALSE,
     group |-> IF deployment = "firestore" THEN Undefined ELSE LeastGroup(room.players)]

\* room.players.find(p => p.id === id), by position (0: none)
FindById(ps, id) ==
    IF \E i \in 1..Len(ps) : ps[i].id = id
    THEN CHOOSE i \in 1..Len(ps) : ps[i].id = id /\ \A j \in 1..(i - 1) : ps[j].id # id
    ELSE 0

\* room.players.find(p => p.name === name), by position (0: none)
FindByName(ps, name) ==
    IF \E i \in 1..Len(ps) : ps[i].name = name
    THEN CHOOSE i \in 1..Len(ps) : ps[i].name = name /\ \A j \in 1..(i - 1) : ps[j].name # name
    ELSE 0

\* the wish list confirmAndMatch builds from the players it sees; the ids are
\* unique per call (Date.now() and Math.random()): stamp numbers the call
BuildWishes(ps, stamp) ==
    LET of(i) == [k \in 1..Len(NonBlank(ps[i].wishes)) |->
                     [id |-> << 119 >> \o ps[i].id \o << 48 + k, 48 + stamp >>,
                      ownerId |-> ps[i].id]]
        upTo[n \in 0..Len(ps)] == IF n = 0 THEN <<>> ELSE upTo[n - 1] \o of(n)
    IN  upTo[Len(ps)]

\* the three checks of startGame on the room the component shows
Gate(r) ==
    /\ ~(Len(r.players) < 2)
    /\ ~(Cardinality({ OrElse(r.players[i].group, <<65>>) : i \in 1..Len(r.players) }) < 2)
    /\ \A i \in 1..Len(r.players) :
          Len(NonBlank(r.players[i].wishes)) >= 2 /\ r.players[i].locked = TRUE

RemoveAt(ws, at) == [k \in 1..(Len(ws) - 1) |-> IF k < at THEN ws[k] ELSE ws[k + 1]]

\* what the updater of an edit makes of the player q it is about
PlayerEdit(u, q) ==
    CASE u.kind = "wish" ->
           [q EXCEPT !.wishes = [k \in 1..Len(q.wishes) |->
                                    IF k = u.at THEN u.val ELSE q.wishes[k]]]
      [] u.kind = "add" ->
           IF Len(q.wishes) < 4 THEN [q EXCEPT !.wishes = Append(@, <<>>)] ELSE q
      [] u.kind = "remove" ->
           IF Len(q.wishes) > 2 THEN [q EXCEPT !.wishes = RemoveAt(@, u.at)] ELSE q
      [] u.kind = "group" -> [q EXCEPT !.group = u.val]
      [] u.kind = "lock" -> [q EXCEPT !.locked = ~@]

\* players: r.players.map(p => p.id === pid ? edited(p) : p)
MapPlayer(u, r) ==
    [r EXCEPT !.players = [i \in 1..Len(r.players) |->
                              IF r.players[i].id = u.pid THEN PlayerEdit(u, r.players[i])
                              ELSE r.players[i]]]

\* the updater function a handler passes to updateRoom, applied to room r
Updater(u, r) ==
    CASE u.kind \in {"wish", "add", "remove", "group", "lock"} -> MapPlayer(u, r)
      [] u.kind = "start" -> [r EXCEPT !.stage = "LOCK_CONFIRM"]
      [] u.kind = "confirm" ->
           [r EXCEPT !.wishes = u.val, !.stage = "MATCHING",
                     !.seed = IF u.at = 0 THEN @ ELSE u.seed]
      [] u.kind = "reveal" -> [r EXCEPT !.pairs = u.val, !.stage = "REVEALED"]

NoUpdater == [kind |-> "none", pid |-> Undefined, at |-> 0, val |-> <<>>, seed |-> <<>>]

NoTask == [op |-> "none", u |-> NoUpdater, read |-> NoRoom, player |-> <<>>, show |-> FALSE]

InMenu == [mode |-> "MENU", currentRoom |-> NoRoom, currentPlayerId |-> Undefined,
           isViewer |-> FALSE, timer |-> NoRoom]

\* a matchWishes that returns what it has instead of throwing
MatchWishesNoThrow(ps, ws, str) ==
    [ok |-> TRUE,
     pairs |-> IF deployment = "shipped" THEN GreedyMatch(ps, ws, str).pairs
               ELSE AugmentingMatch(ps, ws, str).pairs]

\* the matchWishes the component calls
MatchWishes(ps, ws, str) ==
    IF deployment = "shipped" THEN GreedyMatch(ps, ws, str) ELSE AugmentingMatch(ps, ws, str)

\* The component shows room r.  In the components on MockRoomAPI the matching
\* effect depends on the stage shown: it starts its timer, with the state of
\* that render, when the stage becomes MATCHING, and clears it when the stage
\* changes again.
Show(l, r) ==
    [l EXCEPT !.currentRoom = r,
              !.timer = IF ~Sync THEN @
                        ELSE IF r.stage # "MATCHING" THEN NoRoom
                        ELSE IF l.currentRoom.stage = "MATCHING" THEN @
                        ELSE r]

\* the player card of the component's own player, if it is shown for editing
Me(c) == FindById(local[c].currentRoom.players, local[c].currentPlayerId)

CanEdit(c) ==
    /\ local[c].mode = "IN_ROOM"
    /\ ~local[c].isViewer
    /\ Me(c) # 0

IsOwner(c) == CanEdit(c) /\ local[c].currentRoom.players[Me(c)].isOwner

Idle(c) == task[c].op = "none"

\* the calls explored: a handler is called while some are left
CallsLeft == ops < (IF Sync THEN MaxOps ELSE MaxCalls)

\* updateRoom(updater) called by component c in state l: MockRoomAPI applies
\* the updater to the stored room at once and the component shows the result;
\* the others read the room now and write later (UpdateWrite)
Issue(c, u, show, l) ==
    IF Sync
    THEN /\ room' = Updater(u, room)
         /\ local' = [local EXCEPT ![c] = Show(l, Updater(u, room))]
         /\ error' = [error EXCEPT ![c] = ""]
         /\ UNCHANGED task
    ELSE /\ task' = [task EXCEPT ![c] = [op |-> "update", u |-> u, read |-> room,
                                         player |-> <<>>, show |-> show]]
         /\ local' = [local EXCEPT ![c] = l]
         /\ UNCHANGED << room, error >>

\* a handler that calls updateRoom with updater u
Handler(c, u) ==
    /\ Idle(c)
    /\ CallsLeft
    /\ ops' = ops + 1
    /\ Issue(c, u, TRUE, local[c])
    /\ UNCHANGED << deployment, joined >>

Edit(kind, c, at, val) ==
    [kind |-> kind, pid |-> local[c].currentPlayerId, at |-> at, val |-> val, seed |-> <<>>]

\* updatePlayerWish(playerId, wishIndex, text) on the own card
UpdatePlayerWish(c) ==
    /\ c \in Clients
    /\ CanEdit(c)
    /\ \E at \in 1..Len(local[c].currentRoom.players[Me(c)].wishes), text \in Texts :
          Handler(c, Edit("wish", c, at, SanitizeText(text)))
    /\ UNCHANGED roomUnchanged

\* addWishToPlayer(playerId): the button is shown below four wishes
AddWishToPlayer(c) ==
    /\ c \in Clients
    /\ CanEdit(c)
    /\ Len(local[c].currentRoom.players[Me(c)].wishes) < 4
    /\ Handler(c, Edit("add", c, 0, <<>>))
    /\ UNCHANGED roomUnchanged

\* removeWishFromPlayer(playerId, wishIndex): the button is shown above two wishes
RemoveWishFromPlayer(c) ==
    /\ c \in Clients
    /\ CanEdit(c)
    /\ Len(local[c].currentRoom.players[Me(c)].wishes) > 2
    /\ \E at \in 1..Len(local[c].currentRoom.players[Me(c)].wishes) :
          Handler(c, Edit("remove", c, at, <<>>))
    /\ UNCHANGED roomUnchanged

\* the group select of the own card
SelectGroup(c) ==
    /\ c \in Clients
    /\ CanEdit(c)
    /\ \E g \in GroupChoices : Handler(c, Edit("group", c, 0, g))
    /\ UNCHANGED roomUnchanged

\* the lock button of the own card
ToggleLock(c) ==
    /\ c \in Clients
    /\ CanEdit(c)
    /\ Handler(c, Edit("lock", c, 0, <<>>))
    /\ UNCHANGED roomUnchanged

\* startGame: the button is shown to the owner of a room of two or more
\* players (in the component on Supabase only while the stage shown is WAITING)
StartGame(c) ==
    /\ c \in Clients
    /\ deployment # "firestore"
    /\ IsOwner(c)
    /\ Len(local[c].currentRoom.players) >= 2
    /\ deployment = "supabase" => local[c].currentRoom.stage = "WAITING"
    /\ IF Gate(local[c].currentRoom)
       THEN Handler(c, Edit("start", c, 0, <<>>))
       ELSE /\ Idle(c)
            /\ CallsLeft
            /\ ops' = ops + 1
            /\ error' = [error EXCEPT ![c] = "gate"]
            /\ UNCHANGED << deployment, room, local, task, joined >>
    /\ UNCHANGED roomUnchanged

\* confirmAndMatch: the button is shown to the owner while the stage shown is
\* LOCK_CONFIRM.  The shipped component keeps the seed, the others write a new one.
ConfirmAndMatch(c) ==
    /\ c \in Clients
    /\ deployment # "firestore"
    /\ IsOwner(c)
    /\ local[c].currentRoom.stage = "LOCK_CONFIRM"
    /\ \E str \in (IF deployment = "shipped" THEN { <<>> } ELSE Seeds) :
          Handler(c, [kind |-> "confirm", pid |-> Undefined,
                      at |-> IF deployment = "shipped" THEN 0 ELSE 1,
                      val |-> BuildWishes(local[c].currentRoom.players, ops),
                      seed |-> str])
    /\ UNCHANGED roomUnchanged

\* The timer of the matching animation fires.  On MockRoomAPI matchWishes is
\* called on the state the effect was started with and the updater is applied
\* to the stored room; on Supabase the room is loaded, matched and saved.  A
\* throw of matchWishes only sets the error message.
MatchingTimer(c) ==
    /\ c \in Clients
    /\ local[c].timer # NoRoom
    /\ Idle(c)
    /\ \E src \in { IF Sync THEN local[c].timer ELSE room } :
       \E m \in { MatchWishes(src.players, src.wishes, src.seed) } :
          IF m.ok
          THEN Issue(c, [kind |-> "reveal", pid |-> Undefined, at |-> 0,
                         val |-> m.pairs, seed |-> <<>>], Sync,
                     [local[c] EXCEPT !.timer = NoRoom])
          ELSE /\ error' = [error EXCEPT ![c] = "match"]
               /\ local' = [local EXCEPT ![c].timer = NoRoom]
               /\ UNCHANGED << room, task >>
    /\ UNCHANGED << deployment, joined, ops >>
    /\ UNCHANGED roomUnchanged

\* The write of updateRoom: the updater applied to the room that was read
\* replaces the stored room, and the component shows it.  The component on
\* Supabase starts the timer of confirmAndMatch after this write.
UpdateWrite(c) ==
    /\ c \in Clients
    /\ task[c].op = "update"
    /\ \E upd \in { Updater(task[c].u, task[c].read) } :
          /\ room' = upd
          /\ local' = [local EXCEPT ![c] =
                IF ~task[c].show THEN @
                ELSE [Show(@, upd) EXCEPT !.timer =
                         IF task[c].u.kind = "confirm" THEN upd ELSE @]]
    /\ error' = [error EXCEPT ![c] = IF task[c].show THEN "" ELSE @]
    /\ task' = [task EXCEPT ![c] = NoTask]
    /\ UNCHANGED << deployment, joined, ops >>
    /\ UNCHANGED roomUnchanged

\* the ids and names typed into the join form
JoinIds == { PlayerId(i) : i \in 1..(MaxCapacity + 1) }

\* joinRoom(roomId, password, playerId, playerName) from the menu: a player
\* found by id or by name is resolved, a full room is entered as viewer, and
\* otherwise the player is added (on MockRoomAPI at once, else by JoinWrite)
JoinRoom(c) ==
    /\ c \in Clients
    /\ local[c].mode = "MENU"
    /\ Idle(c)
    /\ CallsLeft
    /\ ops' = ops + 1
    /\ \E id \in JoinIds, name \in JoinIds :
       LET byId == FindById(room.players, id)
           sameName == FindByName(room.players, name)
           resolved == IF byId # 0 THEN room.players[byId].id
                       ELSE room.players[sameName].id
           added == [room EXCEPT !.players = Append(@, NewPlayer(id, name))]
       IN  IF byId # 0 \/ sameName # 0
           THEN /\ local' = [local EXCEPT ![c] =
                      Show([@ EXCEPT !.mode = "IN_ROOM", !.currentPlayerId = resolved,
                                     !.isViewer = FALSE], room)]
                /\ joined' = joined \cup { resolved }
                /\ error' = [error EXCEPT ![c] = ""]
                /\ UNCHANGED << room, task >>
           ELSE IF RoomFull(room)
           THEN /\ local' = [local EXCEPT ![c] =
                      Show([@ EXCEPT !.mode = "IN_ROOM", !.currentPlayerId = Undefined,
                                     !.isViewer = TRUE], room)]
                /\ error' = [error EXCEPT ![c] = ""]
                /\ UNCHANGED << room, task, joined >>
           ELSE IF Sync
           THEN /\ room' = added
                /\ local' = [local EXCEPT ![c] =
                      Show([@ EXCEPT !.mode = "IN_ROOM", !.currentPlayerId = id,
                                     !.isViewer = FALSE], added)]
                /\ joined' = joined \cup { id }
                /\ error' = [error EXCEPT ![c] = ""]
                /\ UNCHANGED task
           ELSE /\ task' = [task EXCEPT ![c] = [op |-> "join", u |-> NoUpdater, read |-> room,
                                                player |-> NewPlayer(id, name),
                                                show |-> TRUE]]
                /\ UNCHANGED << room, local, error, joined >>
    /\ UNCHANGED deployment
    /\ UNCHANGED roomUnchanged

\* The write of joinRoom and its return: FirestoreRoomAPI writes the players
\* field alone, Supabase the whole room as it was read with the player added.
JoinWrite(c) ==
    /\ c \in Clients
    /\ task[c].op = "join"
    /\ \E updated \in { [task[c].read EXCEPT !.players = Append(@, task[c].player)] } :
          /\ room' = IF deployment = "firestore"
                     THEN [room EXCEPT !.players = updated.players]
                     ELSE updated
          /\ local' = [local EXCEPT ![c] =
                Show([@ EXCEPT !.mode = "IN_ROOM", !.currentPlayerId = task[c].player.id,
                               !.isViewer = FALSE], updated)]
    /\ joined' = joined \cup { task[c].player.id }
    /\ error' = [error EXCEPT ![c] = ""]
    /\ task' = [task EXCEPT ![c] = NoTask]
    /\ UNCHANGED << deployment, ops >>
    /\ UNCHANGED roomUnchanged

\* leaveRoom: back to the menu
LeaveRoom(c) ==
    /\ c \in Clients
    /\ local[c].mode = "IN_ROOM"
    /\ Idle(c)
    /\ CallsLeft
    /\ ops' = ops + 1
    /\ local' = [local EXCEPT ![c] = [InMenu EXCEPT !.timer = IF Sync THEN NoRoom
                                                              ELSE local[c].timer]]
    /\ error' = [error EXCEPT ![c] = ""]
    /\ UNCHANGED << deployment, room, task, joined >>
    /\ UNCHANGED roomUnchanged

\* the subscription delivers the stored room
Refresh(c) ==
    /\ c \in Clients
    /\ ~Sync
    /\ local[c].mode = "IN_ROOM"
    /\ local[c].currentRoom # room
    /\ local' = [local EXCEPT ![c] = Show(@, room)]
    /\ error' = [error EXCEPT ![c] = ""]
    /\ UNCHANGED << deployment, room, task, joined, ops >>
    /\ UNCHANGED roomUnchanged

\* the devices: MockRoomAPI keeps its rooms in the memory of one device
Devices == {1, 2}

\* a step of a component, or of a store call that has read and not yet written
NextRoom ==
    \/ \E c \in Devices : UpdatePlayerWish(c)
    \/ \E c \in Devices : AddWishToPlayer(c)
    \/ \E c \in Devices : RemoveWishFromPlayer(c)
    \/ \E c \in Devices : SelectGroup(c)
    \/ \E c \in Devices : ToggleLock(c)
    \/ \E c \in Devices : StartGame(c)
    \/ \E c \in Devices : ConfirmAndMatch(c)
    \/ \E c \in Devices : MatchingTimer(c)
    \/ \E c \in Devices : LeaveRoom(c)
    \/ \E c \in Devices : JoinRoom(c)
    \/ \E c \in Devices : UpdateWrite(c)
    \/ \E c \in Devices : JoinWrite(c)
    \/ \E c \in Devices : Refresh(c)

\* A room in stage WAITING as createRoom, joinRoom and the edits of the player
\* cards leave it: the owner first, every player in a group (none is set by
\* FirestoreRoomAPI until the player selects one), locked or not, with two
\* blank or two filled wishes.
WaitingRooms(dep) ==
    { [players |-> [i \in 1..n |->
                      [id |-> PlayerId(i), name |-> PlayerId(i), wishes |-> ws[i],
                       isOwner |-> i = 1, locked |-> lk[i], group |-> grp[i]]],
       maxPlayers |-> cap, stage |-> "WAITING", wishes |-> <<>>, pairs |-> <<>>,
       seed |-> SampleSeed(1)] :
        << n, cap, ws, lk, grp >> \in
            UNION { {n} \X ({ k \in 2..MaxCapacity : k >= n })
                        \X [1..n -> { << <<>>, <<>> >>, << <<120>>, <<120>> >> }]
                        \X [1..n -> BOOLEAN]
                        \X [1..n -> GroupChoices
                                      \cup (IF dep = "firestore" THEN {Undefined} ELSE {})]
                    : n \in 1..MaxCapacity } }

\* a component that shows room r as its player number n, or is at the menu
Seated(r, n) ==
    IF n <= Len(r.players)
    THEN [mode |-> "IN_ROOM", currentRoom |-> r, currentPlayerId |-> PlayerId(n),
          isViewer |-> FALSE, timer |-> NoRoom]
    ELSE InMenu

\* The component of the one device on MockRoomAPI shows the room as any of
\* its players or is at the menu; with the other stores device c shows it as
\* player c or is at the menu.
InitRoom ==
    /\ deployment \in {"shipped", "local", "supabase", "firestore"}
    /\ room \in WaitingRooms(deployment)
    /\ \E clients \in { IF Sync THEN {1} ELSE Devices } :
          /\ local \in { [c \in clients |-> Seated(room, seat[c])] :
                            seat \in [clients -> 1..(MaxCapacity + 1)] }
          /\ Sync \/ \A c \in clients : local[c].currentPlayerId \in {PlayerId(c), Undefined}
          /\ task = [c \in clients |-> NoTask]
          /\ error = [c \in clients |-> ""]
    /\ \A c, d \in Clients :
          (c # d /\ local[c].mode = "IN_ROOM")
             => local[c].currentPlayerId # local[d].currentPlayerId
    /\ joined = { room.players[i].id : i \in 2..Len(room.players) }
    /\ ops = 0
    /\ MatchIdle
    /\ GreedyIdle
    /\ RandomIdle

SpecRoom == InitRoom /\ [][NextRoom]_vars

TypeOK ==
    /\ pc \in {"attempt", "search", "done"}
    /\ attempt \in 0..MaxAttempts
    /\ outcome \in {"none", "ok", "structural", "exhausted"}
    /\ call \in 1..SampleSize

\* ---------------------------------------------------------------- claims
\* The vocabulary of the claims, stated on the inputs alone.

PlayerIds == { players[i].id : i \in 1..Len(players) }

PlayerOf(id) == players[CHOOSE i \in 1..Len(players) : players[i].id = id]

WishOf(id) == wishes[CHOOSE k \in 1..Len(wishes) : wishes[k].id = id]

\* the group of a player, an unset group counting as 'A'
GroupLabelOf(p) == IF p.group = Undefined \/ p.group = <<>> THEN <<65>> ELSE p.group

\* wish w is eligible for player p: not p's own, not owned by p's group
EligibleFor(p, w) ==
    /\ w.ownerId # p.id
    /\ GroupLabelOf(PlayerOf(w.ownerId)) # GroupLabelOf(p)

HasEligibleWish(p) == \E k \in 1..Len(wishes) : EligibleFor(p, wishes[k])

StructurallyInfeasible == \E i \in 1..Len(players) : ~HasEligibleWish(players[i])

RECURSIVE CanAssign(_, _)
\* players i.. can each be given a distinct eligible wish outside `used`
CanAssign(i, used) ==
    IF i > Len(players) THEN TRUE
    ELSE \E k \in 1..Len(wishes) :
            /\ k \notin used
            /\ EligibleFor(players[i], wishes[k])
            /\ CanAssign(i + 1, used \cup {k})

\* a perfect matching exists in the eligibility graph
HasPerfectMatching == CanAssign(1, {})

Returned == pc = "done" /\ outcome = "ok"

\* C1 (perfectness): a returned pair list has exactly one pair per player and
\* uses no wish id twice.
C1_Perfectness ==
    Returned =>
        /\ \A id \in PlayerIds :
              Cardinality({ k \in 1..Len(result) : result[k].pickerId = id }) = 1
        /\ \A k \in 1..Len(result) : result[k].pickerId \in PlayerIds
        /\ \A k1, k2 \in 1..Len(result) :
              k1 # k2 => result[k1].wishId # result[k2].wishId

\* a call returned three pairs, and its last search moved a holder
C1_Witness == Returned /\ Len(result) = 3 /\ last.depth >= 2

\* C2 (no self-match): in a returned pair the wish is not the picker's own.
C2_NoSelfMatch ==
    Returned =>
        \A k \in 1..Len(result) : WishOf(result[k].wishId).ownerId # result[k].pickerId

\* a call returned pairs although some player owns wishes
C2_Witness ==
    /\ Returned
    /\ Len(result) >= 2
    /\ \A id \in PlayerIds : \E k \in 1..Len(wishes) : wishes[k].ownerId = id

\* C3 (no same-group match): in a returned pair the wish's owner and the
\* picker are in different groups, an unset group counting as 'A'.
C3_NoSameGroupMatch ==
    Returned =>
        \A k \in 1..Len(result) :
            GroupLabelOf(PlayerOf(WishOf(result[k].wishId).ownerId))
                # GroupLabelOf(PlayerOf(result[k].pickerId))

\* a call returned pairs for players of which one has no group and one has 'A'
C3_Witness ==
    /\ Returned
    /\ \E i, j \in 1..Len(players) :
          /\ players[i].group = Undefined
          /\ players[j].group = <<65>>
          /\ \E k \in 1..Len(wishes) : wishes[k].ownerId = players[j].id

\* C4 (completeness): when a perfect matching exists the call returns pairs.
C4_Completeness ==
    (pc = "done" /\ HasPerfectMatching) => outcome = "ok"

\* a call returned although its last search had to move a holder (first-fit
\* would have been stuck)
C4_Witness == Returned /\ HasPerfectMatching /\ last.depth >= 2 /\ Len(players) = 3

\* C5 (structural failure): when some player has no eligible wish, no search
\* step is ever made, and the call ends in attempt 0 with the structural
\* failure naming a player who has no eligible wish.
C5_StructuralFailure ==
    StructurallyInfeasible =>
        /\ searches = 0
        /\ attempt = 0
        /\ pc = "done" =>
              /\ outcome = "structural"
              /\ started = 1
              /\ errPlayer \in PlayerIds
              /\ ~HasEligibleWish(PlayerOf(errPlayer))

\* the structural failure, on an input in which another player has eligible wishes
C5_Witness ==
    /\ pc = "done"
    /\ outcome = "structural"
    /\ \E i \in 1..Len(players) : HasEligibleWish(players[i])

C7_SeedIndependentOutcome ==
    (call = 2 /\ pc = "done") => outcome = first.outcome

\* a call with another seed returned another matching
C7_Witness ==
    call = 2 /\ Returned /\ seed # first.seed /\ result # first.result

\* C8 (exhaustion after exactly 7 attempts): never more than 7 attempts are
\* started, and the exhaustion failure comes after 7 attempts (indices 0..6)
\* that each ran their search and failed, with no structural failure.
C8_ExhaustionAfterSeven ==
    /\ started <= 7
    /\ attempt <= 7
    /\ outcome = "exhausted" =>
          /\ started = 7
          /\ failed = 7
          /\ attempt = 7
          /\ searches >= 7
          /\ errPlayer = Undefined

\* the exhaustion failure
C8_Witness == pc = "done" /\ outcome = "exhausted" /\ started = 7

\* C9 as stated: an instance in which every player has an eligible wish never
\* ends with the exhaustion failure.
C9_Original == ~StructurallyInfeasible => outcome # "exhausted"

\* C9 (amended): the exhaustion failure is the outcome exactly of the
\* instances in which every player has an eligible wish and yet no perfect
\* matching exists; an instance with a perfect matching never ends with it.
C9_ExhaustionIffNoMatching ==
    pc = "done" =>
        (outcome = "exhausted" <=> (~StructurallyInfeasible /\ ~HasPerfectMatching))

\* the exhaustion failure on an input in which every player has an eligible
\* wish and there are as many wishes as players
C9_Witness ==
    /\ pc = "done"
    /\ outcome = "exhausted"
    /\ ~StructurallyInfeasible
    /\ Len(wishes) >= Len(players)

\* C10 (all or nothing): a finished call ended in exactly one of the three
\* outcomes; a return covers every player; a failure returns no pairs; and
\* every attempt starts its search from empty assignment maps.
C10_AllOrNothing ==
    /\ pc = "done" =>
          /\ outcome \in {"ok", "structural", "exhausted"}
          /\ outcome = "ok" =>
                /\ Len(result) = Len(players)
                /\ { result[k].pickerId : k \in 1..Len(result) } = PlayerIds
          /\ outcome # "ok" => result = <<>>
    /\ (pc = "search" /\ idx = 1) =>
          /\ wishAssignedTo = <<>>
          /\ pickerAssignedWish = <<>>

\* a call that failed although its last attempt had assigned wishes
C10_Witness ==
    /\ pc = "done"
    /\ outcome = "exhausted"
    /\ pickerAssignedWish # <<>>
    /\ result = <<>>

\* C11 (the first success ends the call): a return happens in the attempt whose
\* search assigned every player, every attempt before it failed and none after
\* it was started; the pairs returned are that attempt's assignment; and an
\* attempt that has assigned every player is never left without returning.
C11_FirstSuccessReturns ==
    /\ Returned =>
          /\ started = attempt + 1
          /\ failed = attempt
          /\ Len(result) = Len(pickerAssignedWish)
          /\ \A k \in 1..Len(result) :
                result[k] = [pickerId |-> pickerAssignedWish[k][1],
                             wishId |-> pickerAssignedWish[k][2]]
    /\ Len(pickerAssignedWish) = Len(players) => Returned

\* a call returned the three pairs of its first attempt
C11_Witness ==
    Returned /\ started = 1 /\ Len(pickerAssignedWish) = 3 /\ searches >= 3

\* the two players are in different groups and each owns a wish
TwoPlayersCrossGroup ==
    /\ Len(players) = 2
    /\ GroupLabelOf(players[1]) # GroupLabelOf(players[2])
    /\ \A i \in 1..2 : \E k \in 1..Len(wishes) : wishes[k].ownerId = players[i].id

\* C12 (two players across groups): with exactly two players in different
\* groups, each owning at least one wish, the call returns exactly two pairs,
\* and each player is paired with a wish of the other player.
C12_TwoPlayerCrossGroup ==
    (pc = "done" /\ TwoPlayersCrossGroup) =>
        /\ outcome = "ok"
        /\ Len(result) = 2
        /\ \A i \in 1..2 :
              \E k \in 1..2 :
                 /\ result[k].pickerId = players[i].id
                 /\ WishOf(result[k].wishId).ownerId = players[3 - i].id

\* the scenario of __selfTest: players in groups 'A' and 'B' with two wishes each
C12_Witness ==
    /\ Returned
    /\ TwoPlayersCrossGroup
    /\ Len(wishes) = 4
    /\ players[1].group = <<65>> /\ players[2].group = <<66>>

\* all players share one group, an unset group counting as 'A'
SingleGroup ==
    \A i, j \in 1..Len(players) : GroupLabelOf(players[i]) = GroupLabelOf(players[j])

\* C13 (single group): when all players share one group the call makes no
\* search and ends in attempt 0 with the structural failure, whatever the
\* seed and the wishes.
C13_SingleGroupStructural ==
    SingleGroup =>
        /\ searches = 0
        /\ attempt = 0
        /\ outcome # "exhausted"
        /\ pc = "done" => (outcome = "structural" /\ started = 1)

\* the structural failure for three players with wishes, of which one has no
\* group and one has group 'A'
C13_Witness ==
    /\ pc = "done"
    /\ outcome = "structural"
    /\ SingleGroup
    /\ Len(players) = 3
    /\ Len(wishes) >= 3
    /\ \E i, j \in 1..3 : players[i].group = Undefined /\ players[j].group = <<65>>

\* the work a call still has before it: the attempts left, and within an
\* attempt its head and the players of the loop not yet searched for
Rank ==
    IF pc = "done" THEN 0
    ELSE (MaxAttempts + 1 - attempt) * (Len(players) + 3)
           + (IF pc = "attempt" THEN Len(players) + 2 ELSE Len(players) + 1 - idx)

\* the guard of one of the three steps of a call holds
CanStep ==
    \/ pc = "attempt" /\ attempt < MaxAttempts
    \/ pc = "search" /\ idx <= Len(playerOrder)
    \/ pc = "attempt" /\ ~(attempt < MaxAttempts)

\* the bounds of one call and of its latest top-level search
SearchBounds ==
    /\ Rank >= 0
    /\ pc # "done" => CanStep
    /\ started <= 7
    /\ searches <= started * Len(players)
    /\ pc = "search" => idx \in 1..Len(players)
    /\ last.seen \subseteq { wishes[k].id : k \in 1..Len(wishes) }
    /\ last.looks = Cardinality(last.seen)
    /\ last.looks <= Len(wishes)
    /\ last.depth - 1 <= last.looks

\* C20 (termination): every step of a call lowers its rank, which never falls
\* below 0, and a call that has not ended can take a step, so every call ends;
\* it starts at most 7 attempts of at most |players| top-level searches each;
\* a top-level search examines each wish id at most once, and the tryMatch
\* calls nested below the top-level one are at most as many as the wish ids
\* examined, hence at most as many as the wishes.
C20_Termination == [](SearchBounds) /\ [][Rank' < Rank]_vars

\* a search that failed after examining every wish, with as many nested calls
\* as wishes
C20_Witness ==
    /\ searches >= 1
    /\ ~last.ok
    /\ Len(wishes) >= 2
    /\ last.looks = Len(wishes)
    /\ last.depth - 1 = Len(wishes)


\* C14: a call of matchWishes, successful or failing, leaves the players list,
\* the wishes list and every element of them as they were, and each shuffle
\* call leaves the array it was given as it was and returns another array.
C14_InputsUnchanged ==
    /\ [](\A k \in 1..Len(shuffleArgs) :
             /\ shuffleArgs[k].after = shuffleArgs[k].before
             /\ shuffleArgs[k].fresh)
    /\ [][players' = players /\ wishes' = wishes]_vars

\* a call has returned pairs after a shuffle that moved an element
C14_Witness ==
    /\ pc = "done"
    /\ outcome = "ok"
    /\ \E k \in 1..Len(shuffleArgs) : shuffleArgs[k].result # shuffleArgs[k].before

\* the internal state of instance k is an integer in 0..233279
StateInRange(k) == fields[FieldOf(k)] \in Word32 /\ LcgValue(fields[FieldOf(k)]) \in 0..233279

\* C15: for every seed string, once next() has been called at least once on a
\* generator its internal state is an integer in 0..233279, and every value
\* next() returned, state / 233280, is at least 0 and less than 1; also for
\* the seed string whose hash is -2^31, where the initial state is 2^31.
C15_GeneratorRange ==
    \A k \in Instances :
        /\ Len(outs[k]) >= 1 => StateInRange(k)
        /\ \A n \in 1..Len(outs[k]) : 0 <= outs[k][n] /\ outs[k][n] < 233280

\* next() has been called twice on a generator whose initial state was 2^31
C15_Witness ==
    /\ seedString = MinHashSeed
    /\ HashString(seedString) = << 32768, 0 >>
    /\ SeededRandomNew(seedString) = << 32768, 0 >>
    /\ Len(outs[1]) >= 2
    /\ StateInRange(1)

IsPrefix(a, b) == Len(a) <= Len(b) /\ SubSeq(b, 1, Len(a)) = a

\* C16: two generators built from the same seed string return the same
\* sequence of next() values, however many calls are made on each, and two
\* shuffle calls on the same array made on two such generators after the same
\* number of earlier next() calls (none, for fresh generators) return the
\* same permutation.
C16_Reproducibility ==
    /\ IsPrefix(outs[1], outs[2]) \/ IsPrefix(outs[2], outs[1])
    /\ (/\ shuffles[1] # NoShuffle
        /\ shuffles[2] # NoShuffle
        /\ shuffles[1].before = shuffles[2].before)
         => heap[shuffles[1].result] = heap[shuffles[2].result]

\* two fresh generators have both shuffled an array of three elements,
\* moving some element, with two next() calls each
C16_Witness ==
    /\ shuffles[1] # NoShuffle /\ shuffles[1].before = 0
    /\ shuffles[2] # NoShuffle /\ shuffles[2].before = 0
    /\ Len(heap[1]) = 3
    /\ heap[shuffles[1].result] # heap[1]
    /\ shuffles[1].result # shuffles[2].result
    /\ Len(outs[1]) >= 2 /\ Len(outs[2]) >= 2

\* the signed value of a 32-bit accumulator given by its halves
Signed(h) == IF h[1] < 32768 THEN h[1] * 65536 + h[2] ELSE (h[1] - 65536) * 65536 + h[2]

\* h * 31 + c reduced to a signed 32-bit integer: with h = q * 2^16 + r,
\* h * 31 + c = (31 * q) * 2^16 + (31 * r + c), and the multiple of 2^16 is
\* reduced to -2^15..2^15 - 1
PolyStep(h, c) ==
    LET q == h \div 65536
        r == h % 65536
        t == (31 * r) + c
        hi == ((((31 * q) + (t \div 65536)) + 32768) % 65536) - 32768
    IN  (hi * 65536) + (t % 65536)

RECURSIVE PolyLoop(_, _, _, _)

\* the polynomial hash of the first n characters, continued from h after i
PolyLoop(str, i, n, h) ==
    IF ~(i < n) \/ h > 2147483647 THEN h
    ELSE PolyLoop(str, i + 1, n, PolyStep(h, str[i + 1]))

PolyHash(str, n) == PolyLoop(str, 0, n, 0)

\* the absolute value of a signed 32-bit integer, as halves
AbsHalves(p) ==
    IF p = (-2147483647) - 1 THEN << 32768, 0 >>
    ELSE LET a == IF p < 0 THEN 0 - p ELSE p IN << a \div 65536, a % 65536 >>

\* C18: after every character of the seed string the constructor's
\* accumulator is the polynomial hash h = h * 31 + charCode, started from 0
\* and reduced to a signed 32-bit integer at every step, and the initial
\* state of the generator is the absolute value of the final accumulator
\* (0 for the empty string).
C18_SeedHash ==
    /\ \A n \in 0..Len(seedString) :
           Signed(HashUpTo(seedString, n)) = PolyHash(seedString, n)
    /\ \A k \in Instances :
           (built[k] /\ outs[k] = <<>>)
             => /\ fields[FieldOf(k)] = AbsHalves(PolyHash(seedString, Len(seedString)))
                /\ seedString = <<>> => fields[FieldOf(k)] = << 0, 0 >>

\* a generator has been constructed from a string of more than six
\* characters whose hash is negative
C18_Witness ==
    /\ built[1]
    /\ outs[1] = <<>>
    /\ Len(seedString) > 6
    /\ PolyHash(seedString, Len(seedString)) < 0
    /\ fields[FieldOf(1)] # HashString(seedString)

\* the number of positions of arr that hold x
Count(arr, x) == Cardinality({ p \in 1..Len(arr) : arr[p] = x })

\* b holds the elements of a with the same multiplicities
IsPermutation(a, b) ==
    /\ Len(a) = Len(b)
    /\ \A p \in 1..Len(a) : Count(a, a[p]) = Count(b, a[p])

\* the shuffle call in progress has made its steps from n - 1 downwards, one
\* next() call each, and its array is a permutation of the input
FrameInv ==
    frame.inst # 0 =>
        LET n == Len(heap[1])
        IN  /\ n >= 1 => frame.i + frame.draws = n - 1
            /\ n = 0 => frame.draws = 0
            /\ frame.i >= 0 \/ n = 0
            /\ Len(outs[frame.inst]) = frame.before + frame.draws
            /\ frame.draws >= 1 =>
                   /\ frame.at = frame.i + 1
                   /\ frame.at >= 1 /\ frame.at <= n - 1
                   /\ 0 <= frame.j /\ frame.j <= frame.at
            /\ IsPermutation(heap[1], heap[frame.result])

\* a shuffle call that has returned made n - 1 steps (none for n <= 1) and
\* returned a permutation of the input, the input itself for n <= 1
ReturnInv ==
    \A k \in Instances :
        shuffles[k] # NoShuffle =>
            LET n == Len(heap[1])
            IN  /\ shuffles[k].draws = (IF n <= 1 THEN 0 ELSE n - 1)
                /\ Len(outs[k]) >= shuffles[k].before + shuffles[k].draws
                /\ IsPermutation(heap[1], heap[shuffles[k].result])
                /\ n <= 1 => heap[shuffles[k].result] = heap[1]

\* a step of the loop draws one value, takes j = floor(value * (i + 1)) and
\* exchanges the elements at i and j, leaving the others
StepInv ==
    (frame.inst # 0 /\ frame'.inst = frame.inst /\ frame' # frame) =>
        LET k == frame.inst
            i == frame.i
            j == frame'.j
            old == heap[frame.result]
            new == heap'[frame.result]
        IN  /\ i >= 1
            /\ frame'.i = i - 1
            /\ frame'.draws = frame.draws + 1
            /\ Len(outs'[k]) = Len(outs[k]) + 1
            /\ SubSeq(outs'[k], 1, Len(outs[k])) = outs[k]
            /\ j = (outs'[k][Len(outs'[k])] * (i + 1)) \div 233280
            /\ 0 <= j /\ j <= i
            /\ Len(new) = Len(old)
            /\ \A p \in 1..Len(old) :
                   new[p] = IF p = i + 1 THEN old[j + 1]
                            ELSE IF p = j + 1 THEN old[i + 1]
                            ELSE old[p]

\* C19: shuffle of an array of length n makes the steps i = n - 1 down to 1;
\* each step draws exactly one next() value and an index j with 0 <= j <= i
\* and exchanges the elements at positions i and j; the result holds the
\* elements of the input with the same multiplicities; for n <= 1 no value is
\* drawn and the result equals the input.
C19_FisherYates == [](FrameInv /\ ReturnInv) /\ [][StepInv]_vars

\* a shuffle of three elements, one of them occurring twice, has returned an
\* array that differs from the input after two steps
C19_Witness ==
    /\ shuffles[2] # NoShuffle
    /\ shuffles[2].draws = 2
    /\ Len(heap[1]) = 3
    /\ Count(heap[1], heap[1][1]) = 2
    /\ heap[shuffles[2].result] # heap[1]

\* C17: on four players in two groups of two with two wishes each, the
\* calls of matchWishes with the seed strings of the sample all return pairs
\* (none is retried seven times), and the picker -> wish mappings they return
\* are not all the same: at least two distinct ones occur.
C17_SeedSensitivity ==
    /\ pc = "attempt" => attempt < 7
    /\ pc = "done" => outcome = "ok" /\ Len(result) = 4
    /\ (pc = "done" /\ call = SampleSize)
         => Cardinality(mappings \cup { MappingOf(result) }) >= 2

\* the last call of the sample has returned, and two mappings differ
C17_Witness ==
    /\ pc = "done"
    /\ call = SampleSize
    /\ outcome = "ok"
    /\ Cardinality(MappingOf(result)) = 4
    /\ \E m \in mappings : m # MappingOf(result)

\* C22: a call that returns pairs returns the matching of attempt 0; once
\* the search of attempt 0 has failed for some player every later attempt
\* fails as well, so an attempt with index >= 1 is executed only in a call
\* that ends with the failure after seven attempts.
C22_SuccessInAttemptZero ==
    /\ Returned => attempt = 0 /\ started = 1 /\ failed = 0
    /\ failed >= 1 => outcome \in {"none", "exhausted"}
    /\ (failed >= 1 /\ pc = "done") => outcome = "exhausted" /\ failed = 7
    /\ attempt >= 1 => failed = attempt

\* an attempt with index >= 1 has searched for a player and failed again
C22_Witness ==
    /\ pc = "attempt"
    /\ attempt >= 2
    /\ failed = attempt
    /\ searches >= 3
    /\ ~last.ok

\* the keys of a Map are distinct
DistinctKeys(map) == \A a, b \in 1..Len(map) : map[a][1] = map[b][1] => a = b

\* wishAssignedTo[w] = p iff pickerAssignedWish[p] = w
MutuallyInverse(wat, paw) ==
    /\ DistinctKeys(wat)
    /\ DistinctKeys(paw)
    /\ Len(wat) = Len(paw)
    /\ \A a \in 1..Len(wat) : MapGet(paw, wat[a][2]) = wat[a][1]
    /\ \A a \in 1..Len(paw) : MapGet(wat, paw[a][2]) = paw[a][1]

\* after every top-level tryMatch call of an attempt the two maps are
\* mutually inverse and assign eligible wishes to the players searched for
MapsInv ==
    pc \in {"search", "attempt"} \/ outcome = "ok" =>
        /\ MutuallyInverse(wishAssignedTo, pickerAssignedWish)
        /\ \A a \in 1..Len(pickerAssignedWish) :
               /\ \E b \in 1..Len(playerOrder) : playerOrder[b] = pickerAssignedWish[a][1]
               /\ \E b \in 1..Len(wishes) :
                      /\ wishes[b].id = pickerAssignedWish[a][2]
                      /\ EligibleFor(PlayerOf(pickerAssignedWish[a][1]), wishes[b])

\* a step that is a top-level tryMatch call: a call that returns false leaves
\* both maps as they were; one that returns true assigns the player searched
\* for and keeps every assigned player assigned
SearchStepInv ==
    searches' = searches + 1 =>
        /\ ~last'.ok => /\ wishAssignedTo' = wishAssignedTo
                        /\ pickerAssignedWish' = pickerAssignedWish
        /\ last'.ok => /\ MapHas(pickerAssignedWish', playerOrder[idx])
                       /\ ~MapHas(pickerAssignedWish, playerOrder[idx])
                       /\ Len(pickerAssignedWish') = Len(pickerAssignedWish) + 1
        /\ \A a \in 1..Len(pickerAssignedWish) :
               MapHas(pickerAssignedWish', pickerAssignedWish[a][1])

\* C23: within an attempt, after every top-level tryMatch call wishAssignedTo
\* and pickerAssignedWish are mutually inverse injections; a top-level call
\* that returns false leaves both maps unchanged; a player that has been
\* assigned stays assigned, possibly to another eligible wish, for the rest
\* of the attempt.
C23_SearchStateInvariant == [](MapsInv) /\ [][SearchStepInv]_vars

\* a top-level call has returned true after nested calls, with two or more
\* players assigned, one of them not to the first wish of its candidate list
C23_Witness ==
    /\ pc = "search"
    /\ last.ok
    /\ last.depth >= 2
    /\ Len(pickerAssignedWish) >= 2
    /\ MutuallyInverse(wishAssignedTo, pickerAssignedWish)
    /\ \E a \in 1..Len(pickerAssignedWish) :
           MapGet(candidates, pickerAssignedWish[a][1])[1] # pickerAssignedWish[a][2]

\* three players in three different groups with one wish each: every player
\* may take either wish of the other two
ThreeCycle ==
    /\ Len(players) = 3
    /\ GroupLabelOf(players[1]) = <<65>>
    /\ players[2].group = <<66>>
    /\ players[3].group = <<67>>
    /\ wishes = WishesOf([i \in 1..3 |-> 1], 3)

\* C21: greedy first-fit can strand a player.  On three players in three
\* groups with one wish each a perfect matching exists, and both versions of
\* the greedy matchWishes throw for the last player exactly when the shuffled
\* wish list ends with that player's own wish: the first two players have
\* then taken each other's wishes.
C21_GreedyStrands ==
    (pc = "done" /\ ThreeCycle) =>
        /\ HasPerfectMatching
        /\ outcome \in {"ok", "stranded"}
        /\ outcome = "stranded" <=> shuffledWishes[3].ownerId = players[3].id
        /\ outcome = "stranded" => errPlayer = players[3].id /\ result = <<>>
        /\ outcome = "ok" => Len(result) = 3

\* the call has thrown although a perfect matching exists
C21_Witness ==
    /\ pc = "done"
    /\ ThreeCycle
    /\ HasPerfectMatching
    /\ outcome = "stranded"
    /\ Len(pairs) = 2
    /\ shuffledWishes[3].ownerId = players[3].id

\* C24: when the greedy matchWishes of the shipped component returns, the
\* list has exactly one pair per player (in player order), no wish id twice,
\* no player's own wish and no wish owned by a player of the picker's group
\* (an unset group counting as 'A'); otherwise it has thrown and returned no
\* pairs.
C24_GreedySafety ==
    (withGroups /\ pc = "done") =>
        /\ outcome \in {"ok", "stranded"}
        /\ outcome = "stranded" => result = <<>>
        /\ outcome = "ok" =>
             /\ Len(result) = Len(players)
             /\ \A i \in 1..Len(result) :
                   /\ result[i].pickerId = players[i].id
                   /\ \E k \in 1..Len(wishes) : wishes[k].id = result[i].wishId
                   /\ WishOf(result[i].wishId).ownerId # players[i].id
                   /\ GroupLabelOf(PlayerOf(WishOf(result[i].wishId).ownerId))
                        # GroupLabelOf(players[i])
             /\ \A i, j \in 1..Len(result) : result[i].wishId = result[j].wishId => i = j

\* the shipped version has returned three pairs, and some player has passed
\* over a wish that was eligible but already given out
C24_Witness ==
    /\ withGroups
    /\ pc = "done"
    /\ outcome = "ok"
    /\ Len(result) = 3
    /\ \E i \in 2..3, j \in 1..2, k \in 1..Len(shuffledWishes) :
          /\ j < i
          /\ shuffledWishes[k].id = result[j].wishId
          /\ EligibleFor(players[i], shuffledWishes[k])
          /\ \E m \in 1..Len(shuffledWishes) :
                m > k /\ shuffledWishes[m].id = result[i].wishId

\* The vocabulary of the claims on rooms.

StoredIds(r) == { r.players[i].id : i \in 1..Len(r.players) }

\* component c has called joinRoom in this step
JoinStep(c) ==
    /\ local[c].mode = "MENU"
    /\ ops' = ops + 1
    /\ local'[c] # local[c] \/ task'[c] # task[c]

\* a join on a full room writes nothing and enters as viewer unless the id or
\* the name is that of a stored player; nobody else enters as viewer
JoinFullInv ==
    \A c \in Clients :
        /\ (JoinStep(c) /\ Len(room.players) >= room.maxPlayers) =>
              /\ room' = room
              /\ task' = task
              /\ joined' \subseteq StoredIds(room) \cup joined
              /\ local'[c].mode = "IN_ROOM"
              /\ local'[c].currentRoom = room
              /\ IF local'[c].isViewer THEN local'[c].currentPlayerId = Undefined
                                            /\ joined' = joined
                 ELSE local'[c].currentPlayerId \in StoredIds(room)
        /\ (JoinStep(c) /\ local'[c].isViewer) => Len(room.players) >= room.maxPlayers

\* C25: under every interleaving of the reads and writes of joinRoom and
\* updateRoom the stored room holds at most maxPlayers players, and a join on
\* a full room by a player who is not in it succeeds as viewer and writes
\* nothing.
C25_RoomCapacity ==
    /\ [](Len(room.players) <= room.maxPlayers)
    /\ [][JoinFullInv]_vars

\* with a store that is read and written apart: one device has joined the
\* last free seat in this run and the other has then entered as viewer
C25_Witness ==
    /\ ~Sync
    /\ ops = 2
    /\ Len(room.players) = room.maxPlayers
    /\ \A c \in Clients : task[c] = NoTask
    /\ \E c, d \in Clients :
          /\ local[c].isViewer
          /\ local[c].currentRoom = room
          /\ local[d].mode = "IN_ROOM"
          /\ ~local[d].isViewer
          /\ local[d].currentPlayerId = room.players[Len(room.players)].id
          /\ local[d].currentPlayerId # PlayerId(d)

\* C26: once joinRoom has returned success with asViewer = false and
\* resolvedPlayerId = p, p is among the stored players in every later state.
C26_NoLostJoin == \A p \in joined : p \in StoredIds(room)

\* C27: the stage of the stored room only moves WAITING -> LOCK_CONFIRM ->
\* MATCHING -> REVEALED, one step at a time.
C27_StageOrder ==
    [][room'.stage # room.stage =>
          << room.stage, room'.stage >> \in { << "WAITING", "LOCK_CONFIRM" >>,
                                              << "LOCK_CONFIRM", "MATCHING" >>,
                                              << "MATCHING", "REVEALED" >> }]_vars

\* the pair list has exactly one pair for every player of the room
CompletePairs(r) ==
    /\ Len(r.pairs) = Len(r.players)
    /\ \A i \in 1..Len(r.players) :
          Cardinality({ j \in 1..Len(r.pairs) : r.pairs[j].pickerId = r.players[i].id }) = 1

\* the matching of component c has failed in this step
MatchFailed(c) == error'[c] = "match" /\ error[c] # "match"

\* a failed matching writes nothing, and REVEALED is written only with a
\* complete pair list
RevealInv ==
    /\ \A c \in Clients :
          MatchFailed(c) => /\ room' = room
                            /\ task' = task
                            /\ Sync => room.stage = "MATCHING"
    /\ (room'.stage = "REVEALED" /\ room.stage # "REVEALED") =>
          /\ CompletePairs(room')
          /\ room'.pairs # <<>>

\* C28: a matching that fails leaves the room as it is (the stage stays
\* MATCHING, the pairs of an earlier round are kept) and sets only the error
\* message; the stage REVEALED is written only together with a complete pair
\* list.
C28_AllOrNothingReveal == [][RevealInv]_vars

\* the matching of a second round has failed: the room is still in stage
\* MATCHING and keeps the pairs of the first round
C28_Witness ==
    /\ Sync
    /\ error[1] = "match"
    /\ room.stage = "MATCHING"
    /\ local[1].timer = NoRoom
    /\ CompletePairs(room)
    /\ Len(room.pairs) = 2

\* the wish with id wid of room r, by position (0: none)
RoomWish(r, wid) ==
    IF \E k \in 1..Len(r.wishes) : r.wishes[k].id = wid
    THEN CHOOSE k \in 1..Len(r.wishes) : r.wishes[k].id = wid
    ELSE 0

\* the group of the stored player with this id, an unset group or no such
\* player counting as 'A'
StoredGroup(r, id) ==
    IF FindById(r.players, id) = 0 THEN <<65>>
    ELSE OrElse(r.players[FindById(r.players, id)].group, <<65>>)

\* the pairs are a valid assignment for the players and wishes of room r
ValidPairs(r) ==
    /\ CompletePairs(r)
    /\ \A i, j \in 1..Len(r.pairs) : r.pairs[i].wishId = r.pairs[j].wishId => i = j
    /\ \A j \in 1..Len(r.pairs) :
          /\ RoomWish(r, r.pairs[j].wishId) # 0
          /\ r.wishes[RoomWish(r, r.pairs[j].wishId)].ownerId # r.pairs[j].pickerId
          /\ StoredGroup(r, r.wishes[RoomWish(r, r.pairs[j].wishId)].ownerId)
                # StoredGroup(r, r.pairs[j].pickerId)

\* C29: in every state in which the stage is REVEALED the stored pairs are a
\* valid assignment for the stored players and wishes: one pair per player,
\* no wish twice, no own wish and no wish owned by a player who is now in
\* the picker's group.
C29_RevealedPairsValid == room.stage = "REVEALED" => ValidPairs(room)

\* the write of a startGame call of component c happens in this step
StartWrites(c) ==
    IF Sync THEN room.stage # "LOCK_CONFIRM" /\ room'.stage = "LOCK_CONFIRM"
    ELSE task[c].op = "update" /\ task[c].u.kind = "start" /\ task'[c] = NoTask

\* a startGame call of component c has ended with the error message
StartRefused(c) ==
    /\ ops' = ops + 1
    /\ error'[c] = "gate"
    /\ task' = task
    /\ local' = local

\* C30: startGame sets the stage to LOCK_CONFIRM only if the room has two or
\* more players, two or more groups (unset counting as 'A') and every player
\* locked with two or more non-blank wishes; otherwise it leaves the room as
\* it is and sets the error message.
C30_StartGameGate ==
    [][\A c \in Clients :
          /\ StartWrites(c) => room'.stage = "LOCK_CONFIRM" /\ Gate(room')
          /\ StartRefused(c) => room' = room /\ ~Gate(local[c].currentRoom)]_vars

====
